---- MODULE Spec2Model ----
(***************************************************************************)
(* A model of subtitle_search_tool.py (class SubtitleSearchTool): the      *)
(* subtitle cache (_get_cached_subtitle, _clear_cache) as it is used by    *)
(* the pre-load thread and the search tasks, the scan (scan_subtitles,     *)
(* _scan_worker, _extract_mkv_subtitles), the search (search_text,         *)
(* _search_worker, _search_in_file_cached) and the jump to the video       *)
(* (jump_to_video, _open_video_at_time).                                   *)
(*                                                                         *)
(* Threads run the methods statement by statement: one action per          *)
(* statement that reads or writes shared state (the instance fields, the   *)
(* files on disk).  The specifications are given over the same variables:  *)
(* SpecCache lets the cache threads, the clears and the file system run,   *)
(* SpecScan lets the scan requests and the scan workers run, SpecSearch    *)
(* lets the searches run over the files a scan has found (SpecSearchLive   *)
(* with fair scheduling), and SpecJump lets the user jump from the rows of *)
(* a search that was delivered.  The scan worker never reads or writes the *)
(* cache and a cache thread never writes the file list or the track map,   *)
(* so each specification leaves the other parts' variables unchanged.      *)
(***************************************************************************)
EXTENDS Integers, Sequences, FiniteSets, TLC

(***************************************************************************)
(* Bounds of the model.                                                    *)
(***************************************************************************)
\* Number of threads that may be inside _get_cached_subtitle at once
\* (the pre-load thread and the search tasks).
NThreads == 2
\* The file system clock stops here: no file is written after it.
MaxClock == 2
\* Number of scan requests (each starts one _scan_worker thread).
MaxScans == 2

\* Number of jump_to_video calls.
MaxJumps == 1
\* Number of warning dialogs shown (messagebox.showwarning).
MaxWarnings == 1

Threads == 1..NThreads
Workers == 1..MaxScans

(***************************************************************************)
(* Text.  A string is a sequence of one-character strings.                 *)
(***************************************************************************)
\* str.strip(): drop the leading and the trailing white space.
RECURSIVE LStrip(_)
LStrip(s) == IF s # <<>> /\ Head(s) = " " THEN LStrip(Tail(s)) ELSE s

RECURSIVE RStrip(_)
RStrip(s) ==
    IF s # <<>> /\ s[Len(s)] = " " THEN RStrip(SubSeq(s, 1, Len(s) - 1)) ELSE s

Strip(s) == RStrip(LStrip(s))

(***************************************************************************)
(* Files.  A file body is what is on disk: whether pysubs2 can interpret   *)
(* it, the encoding chardet reports for it, and its events (start time in  *)
(* ms and raw text) in file order.                                         *)
(***************************************************************************)
Paths == {"a.srt"}

BodyOne ==
    [ok |-> TRUE, charset |-> "utf-8",
     events |-> << [start |-> 5000, text |-> <<" ", "h", "i">>] >>]

BodyTwo ==
    [ok |-> TRUE, charset |-> "utf-8",
     events |-> << [start |-> 5000, text |-> <<"h", "i", " ">>],
                   [start |-> 12000, text |-> <<"H", "o">>] >>]

\* Python's None as the value of an encoding: what chardet reports under
\* 'encoding' when no prober is confident (an empty sample, for one).
NoEncoding == "None"

\* An empty file: chardet has no guess for it and pysubs2 finds no format.
BodyBad ==
    [ok |-> FALSE, charset |-> NoEncoding, events |-> <<>>]

Bodies == {BodyOne, BodyTwo, BodyBad}

\* What a path held at some moment: <<>> when it did not exist, <<body>>
\* when it did.
NoFile == <<>>

\* Optional[CachedSubtitle]: None is <<>>, an entry e is <<e>>.
None == <<>>
Some(e) == <<e>>

\* SubtitleLine(start_ms=line.start, text=line.text.strip()) for every event
\* pysubs2.load yields.
ParseLines(body) ==
    [i \in 1..Len(body.events) |->
        [start_ms |-> body.events[i].start,
         text |-> Strip(body.events[i].text)]]

\* dict.get(key, default).
DictGet(d, k, default) == IF k \in DOMAIN d THEN d[k] ELSE default

\* chardet.detect(raw_data): a dict that always holds the key 'encoding'.
ChardetDetect(body) == [encoding |-> body.charset, confidence |-> "c"]

\* encoding_result.get('encoding', 'utf-8')
DetectedEncoding(body) == DictGet(ChardetDetect(body), "encoding", "utf-8")

\* CachedSubtitle(file_path, lines, last_modified)
CachedSubtitle(p, ls, m) == [file_path |-> p, lines |-> ls, last_modified |-> m]

\* Variants of the freshness check: a strict comparison, and the comparison
\* turned round.
IsFreshStrict(cached, m) == cached.last_modified > m

IsFreshReversed(cached, m) == cached.last_modified <= m

\* cached.last_modified >= file_mtime
IsFresh(cached, m) == cached.last_modified >= m

VARIABLES
    \* the files on disk
    exists,          \* exists[p]: os.path.exists(p)
    content,         \* content[p]: the body of p
    mtime,           \* mtime[p]: os.path.getmtime(p)
    clock,           \* the file system's clock
    hist,            \* history: hist[c][p] is what p held at clock value c
    \* self.subtitle_cache: Dict[str, CachedSubtitle]
    subtitle_cache,
    \* one record per thread inside _get_cached_subtitle
    pc,              \* the statement the thread is at
    file_path,       \* the argument
    file_mtime,      \* the local file_mtime
    encoding,        \* the local encoding
    lines,           \* the local lines
    ret,             \* the value returned
    how,             \* the branch the call returned through
    parses,          \* parser invocations of the call (instrumentation)
    stale_seen,      \* history: the call found a stale entry in the cache
    cleared,         \* history: a clear ran since the call began to parse
    pre_clear        \* history: how the entry of p stands to the latest
                     \* clear: "no" (parsed and stored after it), "parse"
                     \* (its parse began before it, it was stored after
                     \* it), "store" (it was stored before it)

VARIABLES
    folder_path,            \* self.folder_path
    subtitle_files,         \* self.subtitle_files
    subtitle_to_video_map,  \* self.subtitle_to_video_map
    status_var,             \* self.status_var
    after_queue,            \* callbacks posted with root.after(0, ...)
    preloads,               \* number of pre-load threads started
    scans,                  \* number of _scan_worker threads started
    \* one record per _scan_worker thread
    wpc,                    \* the statement the worker is at
    walk,                   \* the directory entries os.walk yields
    idx,                    \* the entry the worker is at
    streams,                \* the local streams of _extract_mkv_subtitles
    si,                     \* the stream the loop is at (i + 1)
    extracted_files,        \* the local extracted_files
    found,                  \* history: the paths the worker added to the list
    ok_idx,                 \* history: the indices i of the streams extracted
    errored,                \* history: the containers whose resolution failed
    files_by,               \* history: the worker that added each list element
    map_by                  \* history: the worker that wrote each map entry

VARIABLES
    searches,        \* number of _search_worker threads started
    tree,            \* self.tree: the rows shown, in order
    errors_shown,    \* the messagebox.showerror dialogs shown, in order
    \* one record per _search_worker thread
    spc,             \* the statement the worker is at
    search_term,     \* the argument search_term
    pattern,         \* the local pattern
    submitted,       \* number of tasks submitted to the worker's executor
    started,         \* number of tasks its pool threads have taken up
    results,         \* the local results
    search_e,        \* the name e of its except clause
    \* one record per task (a call of _search_in_file_cached)
    tpc,             \* the statement the task is at
    tlines,          \* the cues the task parsed and has not stored yet
    file_results,    \* the outcome of the task's future
    \* the name e of the except clause of each _scan_worker
    scan_e,
    delivered        \* history: how the callback of each search ended

VARIABLES
    warnings_shown,  \* the messagebox.showwarning dialogs shown, in order
    infos_shown,     \* the messagebox.showinfo dialogs shown, in order
    jumps,           \* number of jump_to_video calls
    system,          \* platform.system().lower()
    selected,        \* the row the latest jump found selected (0: none)
    video_file,      \* the local video_file of the latest jump
    popens,          \* the subprocess.Popen calls of the latest jump, in order
    success          \* what _open_video_at_time returned in the latest jump

jumpVars == <<warnings_shown, infos_shown, jumps, system, selected, video_file,
              popens, success>>
searchVars == <<searches, tree, errors_shown, spc, search_term, pattern,
                submitted, started, results, search_e,
                tpc, tlines, file_results, scan_e, delivered>>
scanVars == <<folder_path, subtitle_files, subtitle_to_video_map, status_var,
              after_queue, preloads, scans, wpc, walk, idx, streams, si,
              extracted_files, found, ok_idx, errored, files_by, map_by>>
fsVars == <<exists, content, mtime, clock, hist>>
threadVars == <<pc, file_path, file_mtime, encoding, lines, ret, how, parses,
                stale_seen, cleared>>
cacheVars == <<subtitle_cache, pre_clear>>
vars == <<fsVars, cacheVars, threadVars, scanVars, searchVars, jumpVars>>

EmptyCache == [p \in {} |-> None]

\* What every path holds now.
Snapshot(ex, co) == [p \in Paths |-> IF ex[p] THEN <<co[p]>> ELSE NoFile]

\* What path p held at clock value c.
HeldAt(c, p) == hist[c + 1][p]

(***************************************************************************)
(* The file system: other programs (and ffmpeg, for an extracted track)    *)
(* write, delete and create the files; every change is later than the one  *)
(* before it, so a written file's modification time strictly increases.    *)
(***************************************************************************)
WriteFile(p) ==
    /\ exists[p]
    /\ clock < MaxClock
    /\ \E b \in Bodies \ {content[p]} :
          /\ content' = [content EXCEPT ![p] = b]
          /\ hist' = Append(hist, Snapshot(exists, content'))
    /\ clock' = clock + 1
    /\ mtime' = [mtime EXCEPT ![p] = clock + 1]
    /\ UNCHANGED <<jumpVars, exists, cacheVars, threadVars, scanVars, searchVars>>

DeleteFile(p) ==
    /\ exists[p]
    /\ clock < MaxClock
    /\ exists' = [exists EXCEPT ![p] = FALSE]
    /\ clock' = clock + 1
    /\ hist' = Append(hist, Snapshot(exists', content))
    /\ UNCHANGED <<jumpVars, content, mtime, cacheVars, threadVars, scanVars, searchVars>>

CreateFile(p) ==
    /\ ~exists[p]
    /\ clock < MaxClock
    /\ exists' = [exists EXCEPT ![p] = TRUE]
    /\ \E b \in Bodies :
          /\ content' = [content EXCEPT ![p] = b]
          /\ hist' = Append(hist, Snapshot(exists', content'))
    /\ clock' = clock + 1
    /\ mtime' = [mtime EXCEPT ![p] = clock + 1]
    /\ UNCHANGED <<jumpVars, cacheVars, threadVars, scanVars, searchVars>>

(***************************************************************************)
(* _get_cached_subtitle(file_path), one action per statement that touches  *)
(* shared state.  Any exception inside the try block ends the call in the  *)
(* except clause, which returns None.                                      *)
(***************************************************************************)
\* The call returns value r through branch h; its frame (the locals) is gone.
Return(t, r, h) ==
    /\ pc' = [pc EXCEPT ![t] = "done"]
    /\ ret' = [ret EXCEPT ![t] = r]
    /\ how' = [how EXCEPT ![t] = h]
    /\ file_mtime' = [file_mtime EXCEPT ![t] = 0]
    /\ encoding' = [encoding EXCEPT ![t] = ""]
    /\ lines' = [lines EXCEPT ![t] = <<>>]
    /\ cleared' = [cleared EXCEPT ![t] = FALSE]
    /\ UNCHANGED stale_seen

\* The call goes on to statement s.
Goto(t, s) ==
    /\ pc' = [pc EXCEPT ![t] = s]
    /\ UNCHANGED <<ret, how>>

\* A thread (the pre-load loop or a search task) calls the method.
StartGet(t, p) ==
    /\ pc[t] \in {"idle", "done"}
    /\ pc' = [pc EXCEPT ![t] = "exists"]
    /\ file_path' = [file_path EXCEPT ![t] = p]
    /\ file_mtime' = [file_mtime EXCEPT ![t] = 0]
    /\ encoding' = [encoding EXCEPT ![t] = ""]
    /\ lines' = [lines EXCEPT ![t] = <<>>]
    /\ ret' = [ret EXCEPT ![t] = None]
    /\ how' = [how EXCEPT ![t] = ""]
    /\ parses' = [parses EXCEPT ![t] = 0]
    /\ stale_seen' = [stale_seen EXCEPT ![t] = FALSE]
    /\ cleared' = [cleared EXCEPT ![t] = FALSE]
    /\ UNCHANGED <<jumpVars, searchVars, scanVars, fsVars, cacheVars>>

\* Variant of GetExists: a missing file evicts its entry.
GetExistsEvict(t) ==
    /\ pc[t] = "exists"
    /\ IF ~exists[file_path[t]]
          THEN /\ Return(t, None, "absent")
               /\ subtitle_cache' =
                     [p \in DOMAIN subtitle_cache \ {file_path[t]} |->
                         subtitle_cache[p]]
          ELSE /\ Goto(t, "getmtime")
               /\ UNCHANGED <<subtitle_cache, file_mtime, encoding, lines,
                              stale_seen, cleared>>
    /\ UNCHANGED <<jumpVars, searchVars, scanVars, fsVars, pre_clear, file_path, parses>>

\* if not os.path.exists(file_path): return None
GetExists(t) ==
    /\ pc[t] = "exists"
    /\ IF ~exists[file_path[t]]
          THEN Return(t, None, "absent")
          ELSE /\ Goto(t, "getmtime")
               /\ UNCHANGED <<file_mtime, encoding, lines, stale_seen,
                              cleared>>
    /\ UNCHANGED <<jumpVars, searchVars, scanVars, fsVars, cacheVars, file_path, parses>>

\* file_mtime = os.path.getmtime(file_path)
GetMtime(t) ==
    /\ pc[t] = "getmtime"
    /\ IF ~exists[file_path[t]]
          THEN Return(t, None, "oserror")
          ELSE /\ Goto(t, "in_cache")
               /\ file_mtime' = [file_mtime EXCEPT ![t] = mtime[file_path[t]]]
               /\ UNCHANGED <<encoding, lines, stale_seen, cleared>>
    /\ UNCHANGED <<jumpVars, searchVars, scanVars, fsVars, cacheVars, file_path, parses>>

\* if file_path in self.subtitle_cache:
GetInCache(t) ==
    /\ pc[t] = "in_cache"
    /\ IF file_path[t] \in DOMAIN subtitle_cache
          THEN Goto(t, "lookup")
          ELSE Goto(t, "detect")
    /\ UNCHANGED <<jumpVars, searchVars, scanVars, fsVars, cacheVars, file_path, file_mtime, encoding, lines,
                   parses, stale_seen, cleared>>

\* cached = self.subtitle_cache[file_path]
\* if cached.last_modified >= file_mtime: return cached
GetLookup(t) ==
    /\ pc[t] = "lookup"
    /\ IF file_path[t] \notin DOMAIN subtitle_cache
          THEN Return(t, None, "keyerror")
          ELSE LET cached == subtitle_cache[file_path[t]] IN
               IF IsFresh(cached, file_mtime[t])
                  THEN Return(t, Some(cached), "hit")
                  ELSE /\ Goto(t, "detect")
                       /\ stale_seen' = [stale_seen EXCEPT ![t] = TRUE]
                       /\ UNCHANGED <<file_mtime, encoding, lines, cleared>>
    /\ UNCHANGED <<jumpVars, searchVars, scanVars, fsVars, cacheVars, file_path, parses>>

\* with open(file_path, 'rb') as f: raw_data = f.read(8192)
\* encoding = chardet.detect(raw_data).get('encoding', 'utf-8')
GetDetect(t) ==
    /\ pc[t] = "detect"
    /\ IF ~exists[file_path[t]]
          THEN Return(t, None, "oserror")
          ELSE /\ Goto(t, "load")
               /\ encoding' =
                     [encoding EXCEPT ![t] = DetectedEncoding(content[file_path[t]])]
               /\ UNCHANGED <<file_mtime, lines, stale_seen, cleared>>
    /\ UNCHANGED <<jumpVars, searchVars, scanVars, fsVars, cacheVars, file_path, parses>>

\* subs = pysubs2.load(file_path, encoding=encoding)
\* for line in subs: lines.append(SubtitleLine(line.start, line.text.strip()))
GetLoad(t) ==
    /\ pc[t] = "load"
    /\ parses' = [parses EXCEPT ![t] = @ + 1]
    /\ IF ~exists[file_path[t]]
          THEN Return(t, None, "oserror")
          ELSE IF ~content[file_path[t]].ok
          THEN Return(t, None, "parse_error")
          ELSE /\ Goto(t, "store")
               /\ lines' = [lines EXCEPT ![t] = ParseLines(content[file_path[t]])]
               /\ UNCHANGED <<file_mtime, encoding, stale_seen, cleared>>
    /\ UNCHANGED <<jumpVars, searchVars, scanVars, fsVars, cacheVars, file_path>>

\* Variant of GetStore: setdefault, an entry already there is kept.
GetStoreKeep(t) ==
    /\ pc[t] = "store"
    /\ LET e == CachedSubtitle(file_path[t], lines[t], file_mtime[t]) IN
          /\ subtitle_cache' = subtitle_cache @@ (file_path[t] :> e)
          /\ Return(t, Some(e), "parsed")
    /\ pre_clear' = [pre_clear EXCEPT ![file_path[t]] =
                        IF cleared[t] THEN "parse" ELSE "no"]
    /\ UNCHANGED <<jumpVars, searchVars, scanVars, fsVars, file_path, parses>>

\* self.subtitle_cache[file_path] = CachedSubtitle(file_path, lines, file_mtime)
\* return cached_subtitle
GetStore(t) ==
    /\ pc[t] = "store"
    /\ LET e == CachedSubtitle(file_path[t], lines[t], file_mtime[t]) IN
          /\ subtitle_cache' = (file_path[t] :> e) @@ subtitle_cache
          /\ Return(t, Some(e), "parsed")
    /\ pre_clear' = [pre_clear EXCEPT ![file_path[t]] =
                        IF cleared[t] THEN "parse" ELSE "no"]
    /\ UNCHANGED <<jumpVars, searchVars, scanVars, fsVars, file_path, parses>>

(***************************************************************************)
(* The folder.  os.walk yields the directory entries in a fixed order; an  *)
(* entry is a file name split as pathlib splits it (stem and suffix) and,  *)
(* for a container, the subtitle streams ffprobe reports for it.           *)
(***************************************************************************)
\* dict literal {}
EmptyDict == [k \in {} |-> ""]

StreamEn == [codec_name |-> "subrip", tags |-> [language |-> "en"]]

StreamUntagged == [codec_name |-> "ass"]

WalkOne ==
    << [root |-> "/one", stem |-> "a", suffix |-> ".srt", streams |-> <<>>],
       [root |-> "/one", stem |-> "b", suffix |-> ".mkv",
        streams |-> <<StreamEn, StreamEn, StreamUntagged>>] >>

WalkTwo ==
    << [root |-> "/two", stem |-> "c", suffix |-> ".SRT", streams |-> <<>>],
       [root |-> "/two", stem |-> "notes", suffix |-> ".txt", streams |-> <<>>] >>

Folders == {"/one", "/two"}

\* A folder whose one file has " [Track " in its name, and the folders the
\* user may have selected when jumping.
GigHead == "gig"
GigTail == "1]"
WalkLive ==
    << [root |-> "/live", stem |-> GigHead \o " [Track " \o GigTail,
        suffix |-> ".srt", streams |-> <<>>] >>

JumpFolders == Folders \cup {"/live"}

\* os.walk(self.folder_path)
Walk(folder) ==
    CASE folder = "/one" -> WalkOne
      [] folder = "/two" -> WalkTwo
      [] OTHER -> <<>>

\* str(Path(root) / file)
FilePath(e) == e.root \o "/" \o e.stem \o e.suffix

\* file_path.suffix.lower()
Lower(suffix) ==
    CASE suffix = ".SRT" -> ".srt"
      [] suffix = ".MKV" -> ".mkv"
      [] OTHER -> suffix

subtitle_extensions == {".srt", ".vtt", ".ass", ".ssa", ".sub", ".sbv", ".ttml"}

IsSubtitle(e) == Lower(e.suffix) \in subtitle_extensions

IsMkv(e) == ~IsSubtitle(e) /\ Lower(e.suffix) = ".mkv"

\* tempfile.gettempdir()
TempDir == "/tmp"

\* The extension chosen for stream.get('codec_name', 'unknown').
CodecExt(stream) ==
    LET codec == DictGet(stream, "codec_name", "unknown") IN
    CASE codec = "subrip" -> ".srt"
      [] codec = "ass" -> ".ass"
      [] codec = "webvtt" -> ".vtt"
      [] OTHER -> ".srt"

\* tags.get('language', f'track{i}') and tags.get('title', '')
StreamLanguage(stream, i) ==
    DictGet(DictGet(stream, "tags", EmptyDict), "language", "track" \o ToString(i))

StreamTitle(stream) == DictGet(DictGet(stream, "tags", EmptyDict), "title", "")

\* os.path.join(temp_dir, f"{base_name}{track_info}{ext}")
OutputPath(e, stream, i) ==
    LET language == StreamLanguage(stream, i)
        title == StreamTitle(stream)
        track_info == "_" \o language \o (IF title # "" THEN "_" \o title ELSE "")
    IN  TempDir \o "/" \o e.stem \o track_info \o CodecExt(stream)

\* The map entry of a standalone subtitle file.
StandaloneInfo(subtitle_file) ==
    [original_file |-> subtitle_file, is_extracted |-> FALSE, track_index |-> -1]

\* The map entry of stream i of container mkv_path.
ExtractedInfo(mkv_path, stream, i) ==
    [original_file |-> mkv_path, is_extracted |-> TRUE, track_index |-> i,
     language |-> StreamLanguage(stream, i), title |-> StreamTitle(stream)]

EmptyMap == [p \in {} |-> EmptyDict]

\* The entry worker w is at.
Cur(w) == walk[w][idx[w]]

(***************************************************************************)
(* The UI thread: browse_folder, scan_subtitles, _scan_complete.           *)
(***************************************************************************)
\* self.subtitle_cache.clear()
ClearEffect ==
    /\ subtitle_cache' = EmptyCache
    /\ pre_clear' = [p \in Paths |->
                        IF p \in DOMAIN subtitle_cache' THEN "store" ELSE "no"]
    /\ cleared' = [t \in Threads |-> cleared[t] \/ pc[t] \in {"load", "store"}]

\* browse_folder: the user picks a folder (a cancelled dialog changes nothing).
BrowseFolder(f) ==
    /\ folder_path' = f
    /\ UNCHANGED <<subtitle_files, subtitle_to_video_map, status_var,
                   after_queue, preloads, scans, wpc, walk, idx, streams, si,
                   extracted_files, found, ok_idx, errored, files_by, map_by>>
    /\ UNCHANGED <<jumpVars, searchVars, fsVars, cacheVars, threadVars>>

\* scan_subtitles with no folder selected: a warning, nothing else.
ScanSubtitlesNoFolder ==
    /\ folder_path = ""
    /\ Len(warnings_shown) < MaxWarnings
    /\ warnings_shown' = Append(warnings_shown, "Please select a folder first")
    /\ UNCHANGED <<infos_shown, jumps, system, selected, video_file, popens,
                   success>>
    /\ UNCHANGED <<searchVars, scanVars, fsVars, cacheVars, threadVars>>

\* scan_subtitles: clear the cache, set the status, start a _scan_worker.
ScanSubtitles ==
    /\ folder_path # ""
    /\ scans < MaxScans
    /\ ClearEffect
    /\ status_var' = "Scanning subtitles..."
    /\ scans' = scans + 1
    /\ wpc' = [wpc EXCEPT ![scans + 1] = "reset_files"]
    /\ UNCHANGED <<folder_path, subtitle_files, subtitle_to_video_map,
                   after_queue, preloads, walk, idx, streams, si,
                   extracted_files, found, ok_idx, errored, files_by, map_by>>
    /\ UNCHANGED <<jumpVars, searchVars, fsVars, pc, file_path, file_mtime, encoding, lines, ret,
                   how, parses, stale_seen>>

\* _scan_complete: set the status and, when files were found, start the
\* pre-load thread.
ScanComplete ==
    /\ after_queue # <<>>
    /\ Head(after_queue) = "_scan_complete"
    /\ after_queue' = Tail(after_queue)
    /\ LET count == Len(subtitle_files) IN
          IF count > 0
             THEN /\ status_var' = "Found " \o ToString(count)
                                     \o " subtitle files - Pre-loading..."
                  /\ preloads' = preloads + 1
             ELSE /\ status_var' = "Found " \o ToString(count) \o " subtitle files"
                  /\ UNCHANGED preloads
    /\ UNCHANGED <<folder_path, subtitle_files, subtitle_to_video_map, scans,
                   wpc, walk, idx, streams, si, extracted_files, found, ok_idx,
                   errored, files_by, map_by>>
    /\ UNCHANGED <<jumpVars, searchVars, fsVars, cacheVars, threadVars>>

(***************************************************************************)
(* _scan_worker and _extract_mkv_subtitles, one action per statement that  *)
(* reads or writes the instance fields.  ffprobe and ffmpeg are external:  *)
(* each run ends with status 0, with a failure status, or raises.          *)
(***************************************************************************)
WorkerFrame == <<folder_path, status_var, preloads, scans>>

\* self.subtitle_files = []
ResetFiles(w) ==
    /\ wpc[w] = "reset_files"
    /\ subtitle_files' = <<>>
    /\ files_by' = <<>>
    /\ wpc' = [wpc EXCEPT ![w] = "reset_map"]
    /\ UNCHANGED <<WorkerFrame, subtitle_to_video_map, after_queue, walk, idx,
                   streams, si, extracted_files, found, ok_idx, errored, map_by>>
    /\ UNCHANGED <<jumpVars, searchVars, fsVars, cacheVars, threadVars>>

\* self.subtitle_to_video_map = {}
ResetMap(w) ==
    /\ wpc[w] = "reset_map"
    /\ subtitle_to_video_map' = EmptyMap
    /\ map_by' = EmptyMap
    /\ wpc' = [wpc EXCEPT ![w] = "walk"]
    /\ UNCHANGED <<WorkerFrame, subtitle_files, after_queue, walk, idx,
                   streams, si, extracted_files, found, ok_idx, errored, files_by>>
    /\ UNCHANGED <<jumpVars, searchVars, fsVars, cacheVars, threadVars>>

\* for root, dirs, files in os.walk(self.folder_path):
StartWalk(w) ==
    /\ wpc[w] = "walk"
    /\ walk' = [walk EXCEPT ![w] = Walk(folder_path)]
    /\ idx' = [idx EXCEPT ![w] = 1]
    /\ wpc' = [wpc EXCEPT ![w] = "file"]
    /\ UNCHANGED <<WorkerFrame, subtitle_files, subtitle_to_video_map,
                   after_queue, streams, si, extracted_files, found, ok_idx,
                   errored, files_by, map_by>>
    /\ UNCHANGED <<jumpVars, searchVars, fsVars, cacheVars, threadVars>>

\* The worker goes on to the next directory entry.
NextFile(w) ==
    /\ idx' = [idx EXCEPT ![w] = @ + 1]
    /\ wpc' = [wpc EXCEPT ![w] = "file"]
    /\ streams' = [streams EXCEPT ![w] = <<>>]
    /\ si' = [si EXCEPT ![w] = 0]
    /\ extracted_files' = [extracted_files EXCEPT ![w] = <<>>]
    /\ ok_idx' = [ok_idx EXCEPT ![w] = <<>>]

\* if file_path.suffix.lower() in subtitle_extensions:
\*     self.subtitle_files.append(subtitle_file)
AppendFile(w) ==
    /\ wpc[w] = "file"
    /\ idx[w] <= Len(walk[w])
    /\ IsSubtitle(Cur(w))
    /\ subtitle_files' = Append(subtitle_files, FilePath(Cur(w)))
    /\ files_by' = Append(files_by, w)
    /\ found' = [found EXCEPT ![w] = Append(@, FilePath(Cur(w)))]
    /\ wpc' = [wpc EXCEPT ![w] = "map_file"]
    /\ UNCHANGED <<WorkerFrame, subtitle_to_video_map, after_queue, walk, idx,
                   streams, si, extracted_files, ok_idx, errored, map_by>>
    /\ UNCHANGED <<jumpVars, searchVars, fsVars, cacheVars, threadVars>>

\* self.subtitle_to_video_map[subtitle_file] = {...}
MapFile(w) ==
    /\ wpc[w] = "map_file"
    /\ subtitle_to_video_map' =
          (FilePath(Cur(w)) :> StandaloneInfo(FilePath(Cur(w))))
              @@ subtitle_to_video_map
    /\ map_by' = (FilePath(Cur(w)) :> w) @@ map_by
    /\ NextFile(w)
    /\ UNCHANGED <<WorkerFrame, subtitle_files, after_queue, walk, found,
                   errored, files_by>>
    /\ UNCHANGED <<jumpVars, searchVars, fsVars, cacheVars, threadVars>>

\* A file that is neither a subtitle file nor a container is passed over.
SkipFile(w) ==
    /\ wpc[w] = "file"
    /\ idx[w] <= Len(walk[w])
    /\ ~IsSubtitle(Cur(w)) /\ ~IsMkv(Cur(w))
    /\ NextFile(w)
    /\ UNCHANGED <<WorkerFrame, subtitle_files, subtitle_to_video_map,
                   after_queue, walk, found, errored, files_by, map_by>>
    /\ UNCHANGED <<jumpVars, searchVars, fsVars, cacheVars, threadVars>>

\* elif file_path.suffix.lower() == '.mkv': _extract_mkv_subtitles(...)
\* begins: ffprobe runs.  A failure status returns [], and so does an
\* exception (through the except clause); [] extends the list by nothing.
Probe(w) ==
    /\ wpc[w] = "file"
    /\ idx[w] <= Len(walk[w])
    /\ IsMkv(Cur(w))
    /\ \E outcome \in {"ok", "fail", "raise"} :
          IF outcome = "ok"
             THEN /\ streams' = [streams EXCEPT ![w] = Cur(w).streams]
                  /\ si' = [si EXCEPT ![w] = 1]
                  /\ extracted_files' = [extracted_files EXCEPT ![w] = <<>>]
                  /\ ok_idx' = [ok_idx EXCEPT ![w] = <<>>]
                  /\ wpc' = [wpc EXCEPT ![w] =
                               IF Cur(w).streams = <<>> THEN "extend" ELSE "stream"]
                  /\ UNCHANGED <<idx, errored>>
             ELSE /\ NextFile(w)
                  /\ errored' = errored \cup {FilePath(Cur(w))}
    /\ UNCHANGED <<WorkerFrame, subtitle_files, subtitle_to_video_map,
                   after_queue, walk, found, files_by, map_by>>
    /\ UNCHANGED <<jumpVars, searchVars, fsVars, cacheVars, threadVars>>

\* One round of `for i, stream in enumerate(streams)`: ffmpeg runs for
\* stream i.  Status 0 with the output file there appends the path to
\* extracted_files and writes the map entry; a failure status skips the
\* stream; an exception ends the method in the except clause, which returns [].
ExtractStream(w) ==
    /\ wpc[w] = "stream"
    /\ LET i == si[w] - 1
           stream == streams[w][si[w]]
           output_path == OutputPath(Cur(w), stream, i)
           after == IF si[w] = Len(streams[w]) THEN "extend" ELSE "stream"
       IN  \E outcome \in {"ok", "fail", "raise"} :
             CASE outcome = "ok" ->
                    /\ extracted_files' =
                          [extracted_files EXCEPT ![w] = Append(@, output_path)]
                    /\ subtitle_to_video_map' =
                          (output_path :> ExtractedInfo(FilePath(Cur(w)), stream, i))
                              @@ subtitle_to_video_map
                    /\ map_by' = (output_path :> w) @@ map_by
                    /\ ok_idx' = [ok_idx EXCEPT ![w] = Append(@, i)]
                    /\ si' = [si EXCEPT ![w] = @ + 1]
                    /\ wpc' = [wpc EXCEPT ![w] = after]
                    /\ UNCHANGED <<idx, streams, errored>>
               [] outcome = "fail" ->
                    /\ si' = [si EXCEPT ![w] = @ + 1]
                    /\ wpc' = [wpc EXCEPT ![w] = after]
                    /\ UNCHANGED <<idx, streams, extracted_files, ok_idx,
                                   subtitle_to_video_map, map_by, errored>>
               [] outcome = "raise" ->
                    /\ NextFile(w)
                    /\ errored' = errored \cup {FilePath(Cur(w))}
                    /\ UNCHANGED <<subtitle_to_video_map, map_by>>
    /\ UNCHANGED <<WorkerFrame, subtitle_files, after_queue, walk, found, files_by>>
    /\ UNCHANGED <<jumpVars, searchVars, fsVars, cacheVars, threadVars>>

\* return extracted_files; self.subtitle_files.extend(embedded_subs)
ExtendFiles(w) ==
    /\ wpc[w] = "extend"
    /\ subtitle_files' = subtitle_files \o extracted_files[w]
    /\ files_by' = files_by \o [k \in 1..Len(extracted_files[w]) |-> w]
    /\ found' = [found EXCEPT ![w] = @ \o extracted_files[w]]
    /\ NextFile(w)
    /\ UNCHANGED <<WorkerFrame, subtitle_to_video_map, after_queue, walk,
                   errored, map_by>>
    /\ UNCHANGED <<jumpVars, searchVars, fsVars, cacheVars, threadVars>>

\* self.root.after(0, self._scan_complete)
PostScanComplete(w) ==
    /\ wpc[w] = "file"
    /\ idx[w] > Len(walk[w])
    /\ after_queue' = Append(after_queue, "_scan_complete")
    /\ wpc' = [wpc EXCEPT ![w] = "finished"]
    /\ UNCHANGED <<WorkerFrame, subtitle_files, subtitle_to_video_map, walk,
                   idx, streams, si, extracted_files, found, ok_idx, errored,
                   files_by, map_by>>
    /\ UNCHANGED <<jumpVars, searchVars, fsVars, cacheVars, threadVars>>

InitScan ==
    /\ folder_path = ""
    /\ subtitle_files = <<>>
    /\ subtitle_to_video_map = EmptyMap
    /\ status_var = "Ready"
    /\ after_queue = <<>>
    /\ preloads = 0
    /\ scans = 0
    /\ wpc = [w \in Workers |-> "unborn"]
    /\ walk = [w \in Workers |-> <<>>]
    /\ idx = [w \in Workers |-> 0]
    /\ streams = [w \in Workers |-> <<>>]
    /\ si = [w \in Workers |-> 0]
    /\ extracted_files = [w \in Workers |-> <<>>]
    /\ found = [w \in Workers |-> <<>>]
    /\ ok_idx = [w \in Workers |-> <<>>]
    /\ errored = {}
    /\ files_by = <<>>
    /\ map_by = EmptyMap

(***************************************************************************)
(* The search: search_text, _search_worker, _search_in_file_cached,        *)
(* _get_display_filename, _format_time, _search_complete, _search_error,   *)
(* and the error path of _scan_worker (_scan_error).                       *)
(***************************************************************************)
\* Number of search requests (each starts one _search_worker thread).
MaxSearches == 2
\* Number of tasks that end with an exception.
MaxRaises == 1
\* ThreadPoolExecutor(max_workers=4)
max_workers == 4

Searches == 1..MaxSearches

\* str.lower() of one character, over the letters the texts and queries use.
LowerChar(c) ==
    CASE c = "H" -> "h"
      [] c = "W" -> "w"
      [] OTHER -> c

\* re.compile(re.escape(search_term), flags): every character of the term is
\* a literal; flags is re.IGNORECASE or 0.
Compile(term, ignorecase) ==
    [literal |-> term, ignorecase |-> ignorecase]

\* Variant of CharMatches: the flag is not looked at.
CharMatchesExact(pat, c, d) == c = d

\* One literal character of the pattern against one character of the text.
CharMatches(pat, c, d) ==
    IF pat.ignorecase THEN LowerChar(c) = LowerChar(d) ELSE c = d

\* The pattern matches the text at position i.
MatchAt(pat, text, i) ==
    /\ i + Len(pat.literal) - 1 <= Len(text)
    /\ \A j \in 1..Len(pat.literal) :
          CharMatches(pat, text[i + j - 1], pat.literal[j])

\* pattern.search(text): the pattern matches at some position.
PatternSearch(pat, text) ==
    \E i \in 1..(Len(text) + 1) : MatchAt(pat, text, i)

\* f"{n:02d}"
TwoDigits(n) == IF n < 10 THEN "0" \o ToString(n) ELSE ToString(n)

\* _format_time(milliseconds)
FormatTime(milliseconds) ==
    LET seconds == milliseconds \div 1000
        hours == seconds \div 3600
        minutes == (seconds % 3600) \div 60
    IN  TwoDigits(hours) \o ":" \o TwoDigits(minutes) \o ":"
            \o TwoDigits(seconds % 60)

\* The texts of the files and the search box.
TextHelloWorld == <<"h", "e", "l", "l", "o", " ", "w", "o", "r", "l", "d">>
TextHelloAgain == <<"H", "e", "l", "l", "o">>
TextWorld == <<"W", "o", "r", "l", "d">>
TextSayHello == <<" ", "s", "a", "y", " ", "h", "e", "l", "l", "o", " ">>
TextJunkHello == <<"{", "h", "e", "l", "l", "o">>
QueryHello == <<" ", "H", "e", "l", "l", "o">>
QueryBlank == <<" ">>
Queries == {QueryHello, QueryBlank}

\* The bodies of the files a search reads; raw is the text read as utf-8.
BodyA ==
    [ok |-> TRUE, charset |-> "utf-8",
     events |-> << [start |-> 5000, text |-> TextHelloWorld],
                   [start |-> 61000, text |-> TextWorld],
                   [start |-> 3723000, text |-> TextHelloAgain] >>,
     raw |-> TextHelloWorld \o TextWorld \o TextHelloAgain]

BodyTrack ==
    [ok |-> TRUE, charset |-> "utf-8",
     events |-> << [start |-> 12000, text |-> TextSayHello] >>,
     raw |-> TextSayHello]

BodyJunkHello ==
    [ok |-> FALSE, charset |-> "utf-8", events |-> <<>>, raw |-> TextJunkHello]

\* The components of the directories.
DirParts(d) ==
    CASE d = "/one" -> <<"one">>
      [] d = "/two" -> <<"two">>
      [] d = TempDir -> <<"tmp">>
      [] d = "/live" -> <<"live">>

\* The container of folder /one and the paths a scan of /one can yield.
ContainerB == WalkOne[2]
PathA == FilePath(WalkOne[1])
PathB == FilePath(ContainerB)
PathTrack0 == OutputPath(ContainerB, ContainerB.streams[1], 0)
PathTrack2 == OutputPath(ContainerB, ContainerB.streams[3], 2)
PathGig == FilePath(WalkLive[1])

\* The files by path: directory and name.
KnownFiles ==
    { [path |-> PathGig, dir |-> WalkLive[1].root,
       name |-> WalkLive[1].stem \o WalkLive[1].suffix] }
      \cup
    { [path |-> FilePath(WalkOne[k]), dir |-> WalkOne[k].root,
       name |-> WalkOne[k].stem \o WalkOne[k].suffix] : k \in DOMAIN WalkOne }
      \cup
    { [path |-> OutputPath(ContainerB, ContainerB.streams[i + 1], i),
       dir |-> TempDir,
       name |-> ContainerB.stem \o "_"
                  \o StreamLanguage(ContainerB.streams[i + 1], i)
                  \o CodecExt(ContainerB.streams[i + 1])] : i \in 0..2 }

PathParts(p) ==
    IF p \in JumpFolders \cup {TempDir}
       THEN DirParts(p)
       ELSE LET f == CHOOSE g \in KnownFiles : g.path = p
            IN  DirParts(f.dir) \o <<f.name>>

RECURSIVE CommonPrefix(_, _)
CommonPrefix(a, b) ==
    IF a # <<>> /\ b # <<>> /\ Head(a) = Head(b)
       THEN 1 + CommonPrefix(Tail(a), Tail(b))
       ELSE 0

RECURSIVE JoinParts(_)
JoinParts(parts) ==
    IF Len(parts) = 1 THEN parts[1]
    ELSE parts[1] \o "/" \o JoinParts(Tail(parts))

\* The components of os.path.relpath(path, start).
RelList(path, start) ==
    LET path_list == PathParts(path)
        start_list == PathParts(start)
        i == CommonPrefix(start_list, path_list)
    IN  [k \in 1..(Len(start_list) - i) |-> ".."]
            \o SubSeq(path_list, i + 1, Len(path_list))

\* os.path.relpath(path, start)
RelPath(path, start) ==
    LET path_list == PathParts(path)
        start_list == PathParts(start)
        i == CommonPrefix(start_list, path_list)
        rel_list == [k \in 1..(Len(start_list) - i) |-> ".."]
                        \o SubSeq(path_list, i + 1, Len(path_list))
    IN  IF rel_list = <<>> THEN "." ELSE JoinParts(rel_list)

\* _get_display_filename(file_path), with self.subtitle_to_video_map = map
\* and self.folder_path = folder.
DisplayFilename(map, folder, p) ==
    LET video_info == DictGet(map, p, EmptyDict) IN
    IF DictGet(video_info, "is_extracted", FALSE)
       THEN LET rel_path == RelPath(video_info.original_file, folder)
                language == DictGet(video_info, "language", "unknown")
                title == DictGet(video_info, "title", "")
                track_index == DictGet(video_info, "track_index", 0)
            IN  rel_path \o " [Track " \o ToString(track_index) \o ": "
                  \o language
                  \o (IF title # "" THEN " - " \o title ELSE "") \o "]"
       ELSE RelPath(p, folder)

\* What a search leaves alone of the scan's state.
scanFixed == <<folder_path, subtitle_files, subtitle_to_video_map, preloads,
               scans, wpc, walk, idx, streams, si, extracted_files, found,
               ok_idx, errored, files_by, map_by>>

\* The callbacks posted with root.after(0, ...), by the thread that posted.
ScanErrorCallback(w) == "lambda: self._scan_error(str(e)) of scan " \o ToString(w)
SearchCompleteCallback(s) ==
    "lambda: self._search_complete(results) of search " \o ToString(s)
SearchErrorCallback(s) ==
    "lambda: self._search_error(str(e)) of search " \o ToString(s)

\* The name e of an except clause: bound to the exception (its message)
\* inside the clause, unbound before it and after it.
Unbound == "<unbound>"
Messages == {"can't start new thread"}

\* One result tuple (display_name, start_time, text, start_ms).
Match(display_name, start_time, text, start_ms) ==
    [display_name |-> display_name, start_time |-> start_time,
     text |-> text, start_ms |-> start_ms]

\* The cached branch of _search_in_file_cached: the cues of cached.lines
\* the pattern finds, in order.
RECURSIVE SearchLines(_, _, _)
SearchLines(ls, pat, display_name) ==
    IF ls = <<>> THEN <<>>
    ELSE (IF PatternSearch(pat, Head(ls).text)
             THEN << Match(display_name, FormatTime(Head(ls).start_ms),
                           Head(ls).text, Head(ls).start_ms) >>
             ELSE <<>>)
         \o SearchLines(Tail(ls), pat, display_name)

\* The fallback branch, first try: the events of a fresh parse the pattern
\* finds in the raw text, reported with the stripped text.
RECURSIVE SearchEvents(_, _, _)
SearchEvents(events, pat, display_name) ==
    IF events = <<>> THEN <<>>
    ELSE (IF PatternSearch(pat, Head(events).text)
             THEN << Match(display_name, FormatTime(Head(events).start),
                           Strip(Head(events).text), Head(events).start) >>
             ELSE <<>>)
         \o SearchEvents(Tail(events), pat, display_name)

\* Variant of SearchFallback: a file that cannot be parsed yields nothing.
SearchFallbackSilent(there, body, pat, display_name) ==
    IF there /\ body.ok THEN SearchEvents(body.events, pat, display_name)
    ELSE <<>>

\* The text of the match of a file that could not be parsed (line 471); the
\* notice is one symbol of the text.
TextNotParsed == <<"Text found (format not parsed)">>

\* The fallback branch of _search_in_file_cached for a file that is there
\* or not and holds body: a fresh parse; when that raises, a search of the
\* raw text; when that raises too, nothing.
SearchFallback(there, body, pat, display_name) ==
    IF ~there THEN <<>>
    ELSE IF body.ok THEN SearchEvents(body.events, pat, display_name)
    ELSE IF PatternSearch(pat, body.raw)
            THEN << Match(display_name, "--:--:--",
                          TextNotParsed, 0) >>
            ELSE <<>>

\* The encoding the fallback branch hands to pysubs2.load for a file that
\* holds body (lines 446-453):
\*     encoding = chardet.detect(raw_data).get('encoding', 'utf-8')
\*     subs = pysubs2.load(file_path, encoding=encoding)
FallbackEncoding(body) == DetectedEncoding(body)

\* The outcome of a future: the list returned, or an exception; via is the
\* branch the task took (history): "hit" or "parsed" for the cached branch
\* after a cache hit or a parse, "fallback" for the fallback branch.
Returned(matches, via) == [raised |-> FALSE, matches |-> matches, via |-> via]
Raised(via) == [raised |-> TRUE, matches |-> <<>>, via |-> via]
NoOutcome == [raised |-> FALSE, matches |-> <<>>, via |-> "none"]

\* The tasks whose future holds an exception.
RaisedTasks ==
    {t \in Searches \X (1..Len(subtitle_files)) : file_results[t[1]][t[2]].raised}

\* The tasks of search s that a pool thread is executing.
Running(s) == {k \in DOMAIN tpc[s] : tpc[s][k] \in {"get", "store"}}

(***************************************************************************)
(* The UI thread: search_text.                                             *)
(***************************************************************************)
\* Variant of SearchTextWarning: the rows are cleared before the checks.
SearchTextWarningClears(q) ==
    /\ Strip(q) = <<>> \/ subtitle_files = <<>>
    /\ Len(warnings_shown) < MaxWarnings
    /\ warnings_shown' =
          Append(warnings_shown,
                 IF Strip(q) = <<>> THEN "Please enter search text"
                 ELSE "Please scan for subtitles first")
    /\ tree' = <<>>
    /\ UNCHANGED <<infos_shown, jumps, system, selected, video_file, popens,
                   success>>
    /\ UNCHANGED <<searches, errors_shown, spc, search_term, pattern, submitted,
                   started, results, search_e, tpc, tlines, file_results,
                   scan_e, delivered>>
    /\ UNCHANGED <<scanVars, fsVars, cacheVars, threadVars>>

\* search_text with an empty search box or an empty file list: a warning.
SearchTextWarning(q) ==
    /\ Strip(q) = <<>> \/ subtitle_files = <<>>
    /\ Len(warnings_shown) < MaxWarnings
    /\ warnings_shown' =
          Append(warnings_shown,
                 IF Strip(q) = <<>> THEN "Please enter search text"
                 ELSE "Please scan for subtitles first")
    /\ UNCHANGED <<infos_shown, jumps, system, selected, video_file, popens,
                   success>>
    /\ UNCHANGED <<searchVars, scanVars, fsVars, cacheVars, threadVars>>

\* search_text: set the status, clear the tree, start a _search_worker.
SearchText(q) ==
    /\ Strip(q) # <<>>
    /\ subtitle_files # <<>>
    /\ searches < MaxSearches
    /\ status_var' = "Searching in " \o ToString(Len(subtitle_files)) \o " files..."
    /\ tree' = <<>>
    /\ searches' = searches + 1
    /\ spc' = [spc EXCEPT ![searches + 1] = "begin"]
    /\ search_term' = [search_term EXCEPT ![searches + 1] = Strip(q)]
    /\ UNCHANGED <<errors_shown, pattern, submitted, started, results, search_e, tpc, tlines, file_results,
                   scan_e, delivered>>
    /\ UNCHANGED <<jumpVars, scanFixed, after_queue, fsVars, cacheVars, threadVars>>

(***************************************************************************)
(* _search_worker, one action per statement that reads or writes shared    *)
(* state, and the tasks of its executor.                                   *)
(***************************************************************************)
\* flags = 0 if self.case_sensitive.get() else re.IGNORECASE
\* pattern = re.compile(re.escape(search_term), flags)
\* with ThreadPoolExecutor(max_workers=4) as executor:
\* The check box is as the user left it; an exception here (the Tk variable
\* read off the UI thread, the pool) ends the worker in its except clause.
SearchBegin(s) ==
    /\ spc[s] = "begin"
    /\ \/ \E case_sensitive \in BOOLEAN :
            /\ pattern' = [pattern EXCEPT ![s] =
                              Compile(search_term[s], ~case_sensitive)]
            /\ spc' = [spc EXCEPT ![s] = "submit"]
            /\ UNCHANGED search_e
       \/ \E m \in Messages :
            /\ search_e' = [search_e EXCEPT ![s] = m]
            /\ spc' = [spc EXCEPT ![s] = "except"]
            /\ UNCHANGED pattern
    /\ UNCHANGED <<searches, tree, errors_shown, search_term, submitted, started,
                   results, tpc, tlines, file_results,
                   scan_e, delivered>>
    /\ UNCHANGED <<jumpVars, scanVars, fsVars, cacheVars, threadVars>>

\* for subtitle_file in self.subtitle_files:
\*     future = executor.submit(self._search_in_file_cached, subtitle_file, pattern)
\* The loop as one step: it writes the queue of the worker's own executor
\* only, and a pool thread takes the tasks in the order of submission.
Submit(s) ==
    /\ spc[s] = "submit"
    /\ submitted' = [submitted EXCEPT ![s] = Len(subtitle_files)]
    /\ tpc' = [tpc EXCEPT ![s] = [k \in DOMAIN subtitle_files |-> "queued"]]
    /\ spc' = [spc EXCEPT ![s] = "collect"]
    /\ UNCHANGED <<searches, tree, errors_shown, search_term, pattern, started,
                   results, search_e, tlines,
                   file_results, scan_e, delivered>>
    /\ UNCHANGED <<jumpVars, scanVars, fsVars, cacheVars, threadVars>>

\* A pool thread of the worker's executor takes the next task of the queue;
\* the executor has max_workers threads.
TaskStart(s) ==
    /\ started[s] < submitted[s]
    /\ Cardinality(Running(s)) < max_workers
    /\ started' = [started EXCEPT ![s] = @ + 1]
    /\ tpc' = [tpc EXCEPT ![s][started[s] + 1] = "get"]
    /\ UNCHANGED <<searches, tree, errors_shown, spc, search_term, pattern,
                   submitted, results, search_e, tlines,
                   file_results, scan_e, delivered>>
    /\ UNCHANGED <<jumpVars, scanVars, fsVars, cacheVars, threadVars>>

\* Variant of Complete: the exception of a future is not caught.
CompleteUncaught(s, k, o) ==
    /\ tpc' = [tpc EXCEPT ![s][k] = "done"]
    /\ file_results' = [file_results EXCEPT ![s][k] = o]
    /\ tlines' = [tlines EXCEPT ![s][k] = <<>>]
    /\ IF o.raised
          THEN /\ spc' = [spc EXCEPT ![s] = "except"]
               /\ search_e' = [search_e EXCEPT ![s] = "task failed"]
               /\ UNCHANGED results
          ELSE /\ results' = [results EXCEPT ![s] = @ \o o.matches]
               /\ UNCHANGED <<spc, search_e>>

\* The task's future completes with outcome o, and the round of the
\* as_completed loop for it:
\*     try: results.extend(future.result())
\*     except Exception as e: print(...)
\* The loop runs in the worker thread, on its local results, and takes the
\* futures in the order they complete.
Complete(s, k, o) ==
    /\ tpc' = [tpc EXCEPT ![s][k] = "done"]
    /\ file_results' = [file_results EXCEPT ![s][k] = o]
    /\ tlines' = [tlines EXCEPT ![s][k] = <<>>]
    /\ results' = [results EXCEPT ![s] = IF o.raised THEN @ ELSE @ \o o.matches]
    /\ UNCHANGED <<spc, search_e>>

\* The cached branch (lines 432-442) over the cues ls: the list of matches,
\* or an exception out of the loop, which no try block of the task catches.
CompleteCached(s, k, ls, via) ==
    \/ Complete(s, k, Returned(SearchLines(ls, pattern[s],
            DisplayFilename(subtitle_to_video_map, folder_path,
                            subtitle_files[k])), via))
    \/ /\ Cardinality(RaisedTasks) < MaxRaises
       /\ Complete(s, k, Raised(via))

\* The fallback branch (lines 444-476).
CompleteFallback(s, k) ==
    LET p == subtitle_files[k] IN
    Complete(s, k, Returned(SearchFallback(exists[p], content[p], pattern[s],
        DisplayFilename(subtitle_to_video_map, folder_path, p)), "fallback"))

\* cached_subtitle = self._get_cached_subtitle(file_path), up to the cache
\* check: a missing file and a hit return at once, and the task goes on to
\* its fallback branch or its cached branch; otherwise the file is parsed.
TaskGet(s, k) ==
    /\ tpc[s][k] = "get"
    /\ LET p == subtitle_files[k] IN
       IF ~exists[p]
          THEN CompleteFallback(s, k)
       ELSE IF p \in DOMAIN subtitle_cache /\ IsFresh(subtitle_cache[p], mtime[p])
          THEN CompleteCached(s, k, subtitle_cache[p].lines, "hit")
       ELSE IF content[p].ok
          THEN /\ tpc' = [tpc EXCEPT ![s][k] = "store"]
               /\ tlines' = [tlines EXCEPT ![s][k] = ParseLines(content[p])]
               /\ UNCHANGED <<file_results, results, spc, search_e>>
       ELSE CompleteFallback(s, k)
    /\ UNCHANGED <<searches, tree, errors_shown, search_term, pattern,
                   submitted, started, scan_e, delivered>>
    /\ UNCHANGED <<jumpVars, scanVars, fsVars, cacheVars, threadVars>>

\* Variant of TaskStore: the entry is stored without its cues.
TaskStoreNoLines(s, k) ==
    /\ tpc[s][k] = "store"
    /\ LET p == subtitle_files[k] IN
          subtitle_cache' =
              (p :> CachedSubtitle(p, <<>>, mtime[p])) @@ subtitle_cache
    /\ CompleteCached(s, k, tlines[s][k], "parsed")
    /\ UNCHANGED <<searches, tree, errors_shown, search_term, pattern,
                   submitted, started, scan_e, delivered>>
    /\ UNCHANGED <<jumpVars, scanVars, fsVars, pre_clear, threadVars>>

\* self.subtitle_cache[file_path] = cached_subtitle; return cached_subtitle,
\* and the task's cached branch.
TaskStore(s, k) ==
    /\ tpc[s][k] = "store"
    /\ LET p == subtitle_files[k] IN
          subtitle_cache' =
              (p :> CachedSubtitle(p, tlines[s][k], mtime[p])) @@ subtitle_cache
    /\ CompleteCached(s, k, tlines[s][k], "parsed")
    /\ UNCHANGED <<searches, tree, errors_shown, search_term, pattern,
                   submitted, started, scan_e, delivered>>
    /\ UNCHANGED <<jumpVars, scanVars, fsVars, pre_clear, threadVars>>

\* Variant of PostSearchComplete: the callback is posted without waiting
\* for the futures.
PostSearchCompleteEarly(s) ==
    /\ spc[s] = "collect"
    /\ after_queue' = Append(after_queue, SearchCompleteCallback(s))
    /\ spc' = [spc EXCEPT ![s] = "finished"]
    /\ tpc' = [tpc EXCEPT ![s] = [k \in DOMAIN subtitle_files |-> "none"]]
    /\ file_results' =
          [file_results EXCEPT ![s] = [k \in DOMAIN subtitle_files |-> NoOutcome]]
    /\ UNCHANGED <<searches, tree, errors_shown, search_term, pattern, submitted,
                   started, results, search_e, tlines, scan_e, delivered>>
    /\ UNCHANGED <<jumpVars, scanFixed, status_var, fsVars, cacheVars, threadVars>>

\* The with block ends (every future is done) and
\* self.root.after(0, lambda: self._search_complete(results))
\* The worker returns: its futures are gone, the lambda holds its results.
PostSearchComplete(s) ==
    /\ spc[s] = "collect"
    /\ \A k \in DOMAIN tpc[s] : tpc[s][k] = "done"
    /\ after_queue' = Append(after_queue, SearchCompleteCallback(s))
    /\ spc' = [spc EXCEPT ![s] = "finished"]
    /\ tpc' = [tpc EXCEPT ![s] = [k \in DOMAIN subtitle_files |-> "none"]]
    /\ file_results' =
          [file_results EXCEPT ![s] = [k \in DOMAIN subtitle_files |-> NoOutcome]]
    /\ UNCHANGED <<searches, tree, errors_shown, search_term, pattern, submitted,
                   started, results, search_e, tlines, scan_e, delivered>>
    /\ UNCHANGED <<jumpVars, scanFixed, status_var, fsVars, cacheVars, threadVars>>

\* except Exception as e:
\*     self.root.after(0, lambda: self._search_error(str(e)))
PostSearchError(s) ==
    /\ spc[s] = "except"
    /\ after_queue' = Append(after_queue, SearchErrorCallback(s))
    /\ spc' = [spc EXCEPT ![s] = "except_end"]
    /\ UNCHANGED <<searches, tree, errors_shown, search_term, pattern, submitted,
                   started, results, search_e, tpc,
                   tlines, file_results, scan_e, delivered>>
    /\ UNCHANGED <<jumpVars, scanFixed, status_var, fsVars, cacheVars, threadVars>>

\* The except clause ends: the name e is deleted, the thread is over.
SearchExceptExit(s) ==
    /\ spc[s] = "except_end"
    /\ search_e' = [search_e EXCEPT ![s] = Unbound]
    /\ spc' = [spc EXCEPT ![s] = "failed"]
    /\ UNCHANGED <<searches, tree, errors_shown, search_term, pattern, submitted,
                   started, results, tpc, tlines,
                   file_results, scan_e, delivered>>
    /\ UNCHANGED <<jumpVars, scanVars, fsVars, cacheVars, threadVars>>

(***************************************************************************)
(* The UI thread runs the callbacks in the order they were posted.         *)
(***************************************************************************)
\* The rows _search_complete inserts for the results of search s.
Rows(s, rs) ==
    [i \in 1..Len(rs) |->
        [values |-> <<rs[i].display_name, rs[i].start_time, rs[i].text>>,
         start_ms |-> rs[i].start_ms, search |-> s]]

\* lambda: self._search_complete(results)
SearchComplete ==
    /\ after_queue # <<>>
    /\ \E s \in Searches :
          /\ Head(after_queue) = SearchCompleteCallback(s)
          /\ tree' = tree \o Rows(s, results[s])
          /\ status_var' = "Found " \o ToString(Len(results[s]))
                             \o " matches in "
                             \o ToString(Len(subtitle_files)) \o " files"
          /\ delivered' = [delivered EXCEPT ![s] = "complete"]
    /\ after_queue' = Tail(after_queue)
    /\ UNCHANGED <<searches, errors_shown, spc, search_term, pattern, submitted,
                   started, results, search_e, tpc,
                   tlines, file_results, scan_e>>
    /\ UNCHANGED <<jumpVars, scanFixed, fsVars, cacheVars, threadVars>>

\* lambda: self._search_error(str(e)).  The lambda reads the name e of the
\* worker's except clause when it runs: while the clause has not ended, e is
\* the exception and _search_error runs; after it, e is unbound, str(e)
\* raises NameError and _search_error is not called.
SearchError ==
    /\ after_queue # <<>>
    /\ \E s \in Searches :
          /\ Head(after_queue) = SearchErrorCallback(s)
          /\ IF search_e[s] # Unbound
                THEN /\ status_var' = "Search failed"
                     /\ errors_shown' =
                           Append(errors_shown, "Search failed: " \o search_e[s])
                     /\ delivered' = [delivered EXCEPT ![s] = "error"]
                ELSE /\ delivered' = [delivered EXCEPT ![s] = "NameError"]
                     /\ UNCHANGED <<status_var, errors_shown>>
    /\ after_queue' = Tail(after_queue)
    /\ UNCHANGED <<searches, tree, spc, search_term, pattern, submitted, started,
                   results, search_e, tpc, tlines,
                   file_results, scan_e>>
    /\ UNCHANGED <<jumpVars, scanFixed, fsVars, cacheVars, threadVars>>

(***************************************************************************)
(* The error path of _scan_worker.                                         *)
(***************************************************************************)
scanErrorFrame == <<folder_path, subtitle_files, subtitle_to_video_map,
                    preloads, scans, walk, idx, streams, si, extracted_files,
                    found, ok_idx, errored, files_by, map_by>>
searchOnly == <<searches, tree, spc, search_term, pattern, submitted, started,
                results, search_e, tpc, tlines,
                file_results, delivered>>

\* os.walk(self.folder_path) raises (it catches OSError only): the worker
\* is in its except clause.
ScanWalkRaise(w) ==
    /\ wpc[w] = "walk"
    /\ \E m \in Messages : scan_e' = [scan_e EXCEPT ![w] = m]
    /\ wpc' = [wpc EXCEPT ![w] = "except"]
    /\ UNCHANGED <<scanErrorFrame, status_var, after_queue, errors_shown,
                   searchOnly>>
    /\ UNCHANGED <<jumpVars, fsVars, cacheVars, threadVars>>

\* except Exception as e:
\*     self.root.after(0, lambda: self._scan_error(str(e)))
PostScanError(w) ==
    /\ wpc[w] = "except"
    /\ after_queue' = Append(after_queue, ScanErrorCallback(w))
    /\ wpc' = [wpc EXCEPT ![w] = "except_end"]
    /\ UNCHANGED <<scanErrorFrame, status_var, errors_shown, scan_e, searchOnly>>
    /\ UNCHANGED <<jumpVars, fsVars, cacheVars, threadVars>>

\* The except clause ends: the name e is deleted, the thread is over.
ScanExceptExit(w) ==
    /\ wpc[w] = "except_end"
    /\ scan_e' = [scan_e EXCEPT ![w] = Unbound]
    /\ wpc' = [wpc EXCEPT ![w] = "failed"]
    /\ UNCHANGED <<scanErrorFrame, status_var, after_queue, errors_shown,
                   searchOnly>>
    /\ UNCHANGED <<jumpVars, fsVars, cacheVars, threadVars>>

\* lambda: self._scan_error(str(e)), run by the UI thread: as SearchError.
ScanError ==
    /\ after_queue # <<>>
    /\ \E w \in Workers :
          /\ Head(after_queue) = ScanErrorCallback(w)
          /\ IF scan_e[w] # Unbound
                THEN /\ status_var' = "Scan failed"
                     /\ errors_shown' =
                           Append(errors_shown,
                                  "Failed to scan subtitles: " \o scan_e[w])
                ELSE UNCHANGED <<status_var, errors_shown>>
    /\ after_queue' = Tail(after_queue)
    /\ UNCHANGED <<scanErrorFrame, wpc, scan_e, searchOnly>>
    /\ UNCHANGED <<jumpVars, fsVars, cacheVars, threadVars>>

InitSearch ==
    /\ searches = 0
    /\ tree = <<>>
    /\ errors_shown = <<>>
    /\ spc = [s \in Searches |-> "unborn"]
    /\ search_term = [s \in Searches |-> <<>>]
    /\ pattern = [s \in Searches |-> Compile(<<>>, FALSE)]
    /\ submitted = [s \in Searches |-> 0]
    /\ started = [s \in Searches |-> 0]
    /\ results = [s \in Searches |-> <<>>]
    /\ search_e = [s \in Searches |-> Unbound]
    /\ tpc = [s \in Searches |-> [k \in DOMAIN subtitle_files |-> "none"]]
    /\ tlines = [s \in Searches |-> [k \in DOMAIN subtitle_files |-> <<>>]]
    /\ file_results =
          [s \in Searches |-> [k \in DOMAIN subtitle_files |-> NoOutcome]]
    /\ scan_e = [w \in Workers |-> Unbound]
    /\ delivered = [s \in Searches |-> "no"]

(***************************************************************************)
(* jump_to_video: from a row of the tree to a player.                      *)
(***************************************************************************)
\* platform.system().lower()
Systems == {"darwin", "windows", "linux"}

\* The executables the players are started with; a call of subprocess.Popen
\* starts the process when the executable can be run and raises
\* FileNotFoundError (an OSError) when it cannot.  "start" is run through
\* the shell (shell=True).
IinaApp == "/Applications/IINA.app/Contents/MacOS/iina"
VlcApp == "/Applications/VLC.app/Contents/MacOS/VLC"
Executables == {"iina", IinaApp, "open", "vlc", VlcApp, "mpv", "start", "xdg-open"}

\* subprocess.Popen(cmd, ...) for a player, with the executables of avail
\* runnable: the call and whether the process was started.
Popen(player, exe, avail) == [player |-> player, exe |-> exe, ok |-> exe \in avail]

\* for cmd in commands: try: Popen(cmd); return True
\*                      except (FileNotFoundError, OSError): continue
\* The calls made, in order; the last one is the one that started, if any.
RECURSIVE TryCommands(_, _, _)
TryCommands(player, exes, avail) ==
    IF exes = <<>> THEN <<>>
    ELSE LET call == Popen(player, Head(exes), avail) IN
         IF call.ok THEN <<call>>
         ELSE <<call>> \o TryCommands(player, Tail(exes), avail)

\* The calls ended with a process started: the _try_ method returned True.
Launched(calls) == calls # <<>> /\ calls[Len(calls)].ok

\* _try_iina: iina, the binary of the application bundle, open -a IINA.
TryIina(avail) == TryCommands("IINA", <<"iina", IinaApp, "open">>, avail)

\* _try_vlc
TryVlc(avail) == TryCommands("VLC", <<"vlc", VlcApp>>, avail)

\* _try_mpv
TryMpv(avail) == TryCommands("mpv", <<"mpv">>, avail)

\* _try_system_default
TrySystemDefault(sys, avail) ==
    TryCommands("default",
                << CASE sys = "darwin" -> "open"
                     [] sys = "windows" -> "start"
                     [] OTHER -> "xdg-open" >>, avail)

\* The instruction shown when the default player was started.
SeekInfo(start_time_ms) ==
    "Video opened with default player. Please seek to "
        \o FormatTime(start_time_ms)

\* Variant of OpenVideoAtTime: every player is tried, whatever came before.
OpenVideoAtTimeAll(sys, avail, start_time_ms) ==
    LET calls == (IF sys = "darwin" THEN TryIina(avail) ELSE <<>>)
                   \o TryVlc(avail) \o TryMpv(avail)
                   \o TrySystemDefault(sys, avail)
    IN  [popens |-> calls,
         info |-> IF Launched(calls) THEN <<SeekInfo(start_time_ms)>> ELSE <<>>,
         ret |-> \E i \in DOMAIN calls : calls[i].ok]

\* _open_video_at_time(video_file, start_time_ms) on system sys: the Popen
\* calls made, the instruction shown, the value returned.
OpenVideoAtTime(sys, avail, start_time_ms) ==
    LET iina == IF sys = "darwin" THEN TryIina(avail) ELSE <<>>
        vlc == iina \o TryVlc(avail)
        mpv == vlc \o TryMpv(avail)
        default == mpv \o TrySystemDefault(sys, avail)
    IN  IF Launched(iina) THEN [popens |-> iina, info |-> <<>>, ret |-> TRUE]
        ELSE IF Launched(vlc) THEN [popens |-> vlc, info |-> <<>>, ret |-> TRUE]
        ELSE IF Launched(mpv) THEN [popens |-> mpv, info |-> <<>>, ret |-> TRUE]
        ELSE IF Launched(default)
           THEN [popens |-> default, info |-> <<SeekInfo(start_time_ms)>>,
                 ret |-> TRUE]
        ELSE [popens |-> default, info |-> <<>>, ret |-> FALSE]

\* str.split(" [Track ")[0] over the display names of the model: the part
\* of the name before the first " [Track ", the name itself when it holds
\* none.  A display name is a relative path, with the track information of
\* _get_display_filename after it or not; SplitHeads are the strings that
\* stand before a " [Track " in one, SplitTails the strings after it.
TrackInfoTail(info) ==
    ToString(info.track_index) \o ": " \o info.language
        \o (IF info.title # "" THEN " - " \o info.title ELSE "") \o "]"

SplitHeads ==
    {RelPath(o, d) : o \in {PathA, PathB, PathGig}, d \in JumpFolders}
      \cup
    {JoinParts(SubSeq(RelList(PathGig, d), 1, Len(RelList(PathGig, d)) - 1)
                  \o <<GigHead>>) : d \in JumpFolders}

SplitTails ==
    {TrackInfoTail(ExtractedInfo(PathB, ContainerB.streams[k], i)) :
        k \in DOMAIN ContainerB.streams, i \in 0..2}
      \cup {GigTail \o WalkLive[1].suffix}

SplitsAt(display_name, x) ==
    \E y \in SplitTails : display_name = x \o " [Track " \o y

SplitTrack(display_name) ==
    CHOOSE r \in {display_name} \cup SplitHeads :
        IF \E x \in SplitHeads : SplitsAt(display_name, x)
           THEN /\ SplitsAt(display_name, r)
                /\ \A z \in SplitHeads :
                      SplitsAt(display_name, z) => Len(r) <= Len(z)
           ELSE r = display_name

\* _find_video_file_from_display_name(display_name), with
\* self.subtitle_to_video_map = map and self.folder_path = folder: the
\* original_file of the first entry whose relative path is the name cut at
\* " [Track ".  Entries with the same relative path have the same
\* original_file, so the order of the entries does not show.
FindVideoFileFromDisplayName(map, folder, display_name) ==
    LET hits == {map[p].original_file : p \in
                    {q \in DOMAIN map :
                        \E name \in {SplitTrack(display_name)} :
                            RelPath(map[q].original_file, folder) = name}}
    IN  IF hits = {} THEN None ELSE Some(CHOOSE v \in hits : TRUE)

\* The error shown when no player could be started.
NoPlayerError(sys) ==
    IF sys = "darwin"
       THEN "Could not open video file. Please install IINA or VLC Media Player."
       ELSE "Could not open video file. Please install VLC or another compatible video player."

\* jump_to_video with no row selected: a warning.
JumpNoSelection ==
    /\ jumps < MaxJumps
    /\ Len(warnings_shown) < MaxWarnings
    /\ jumps' = jumps + 1
    /\ selected' = 0
    /\ warnings_shown' =
          Append(warnings_shown, "Please select a search result first")
    /\ video_file' = None
    /\ popens' = <<>>
    /\ success' = "none"
    /\ UNCHANGED <<infos_shown, system>>
    /\ UNCHANGED <<searchVars, scanVars, fsVars, cacheVars, threadVars>>

\* jump_to_video with row sel selected.  avail: the executables that can be
\* run; there: os.path.exists of a video file the model keeps no record of.
JumpToVideo(sel) ==
    /\ jumps < MaxJumps
    /\ sel \in DOMAIN tree
    /\ jumps' = jumps + 1
    /\ selected' = sel
    /\ video_file' = FindVideoFileFromDisplayName(
                         subtitle_to_video_map, folder_path, tree[sel].values[1])
    /\ \E avail \in SUBSET Executables : \E there \in BOOLEAN :
          IF video_file' = None
             THEN /\ errors_shown' =
                        Append(errors_shown, "Could not find video file")
                  /\ popens' = <<>>
                  /\ success' = "none"
                  /\ UNCHANGED infos_shown
          ELSE IF ~(IF video_file'[1] \in DOMAIN exists
                       THEN exists[video_file'[1]] ELSE there)
             THEN /\ errors_shown' =
                        Append(errors_shown,
                               "Video file not found: " \o video_file'[1])
                  /\ popens' = <<>>
                  /\ success' = "none"
                  /\ UNCHANGED infos_shown
          ELSE \E o \in {OpenVideoAtTime(system, avail, tree[sel].start_ms)} :
                  /\ popens' = o.popens
                  /\ infos_shown' = infos_shown \o o.info
                  /\ success' = IF o.ret THEN "true" ELSE "false"
                  /\ errors_shown' =
                        IF o.ret THEN errors_shown
                        ELSE Append(errors_shown, NoPlayerError(system))
    /\ UNCHANGED <<warnings_shown, system>>
    /\ UNCHANGED <<searches, tree, spc, search_term, pattern, submitted,
                   started, results, search_e, tpc, tlines, file_results,
                   scan_e, delivered>>
    /\ UNCHANGED <<scanVars, fsVars, cacheVars, threadVars>>

\* The state before any jump, on system sys.
InitJumpOn(sys) ==
    /\ warnings_shown = <<>>
    /\ infos_shown = <<>>
    /\ jumps = 0
    /\ system = sys
    /\ selected = 0
    /\ video_file = None
    /\ popens = <<>>
    /\ success = "none"

\* The cache, the scan and the searches never read the system.
InitJump == InitJumpOn("linux")

\* Variant of ClearCache: only the entries of files that are gone are dropped.
ClearCacheGone ==
    /\ subtitle_cache' =
          [p \in {q \in DOMAIN subtitle_cache : exists[q]} |-> subtitle_cache[p]]
    /\ pre_clear' = [p \in Paths |->
                        IF p \in DOMAIN subtitle_cache' THEN "store" ELSE "no"]
    /\ cleared' = [t \in Threads |-> cleared[t] \/ pc[t] \in {"load", "store"}]
    /\ UNCHANGED <<jumpVars, searchVars, scanVars, fsVars, pc, file_path, file_mtime, encoding, lines, ret,
                   how, parses, stale_seen>>

\* _clear_cache(): self.subtitle_cache.clear(), called by scan_subtitles on
\* the UI thread at the start of a scan and by _on_closing.
ClearCache ==
    /\ ClearEffect
    /\ UNCHANGED <<jumpVars, searchVars, scanVars, fsVars, pc, file_path, file_mtime, encoding, lines,
                   ret, how, parses, stale_seen>>

InitFiles ==
    /\ exists = [p \in Paths |-> TRUE]
    /\ content = [p \in Paths |-> BodyOne]
    /\ mtime = [p \in Paths |-> 0]
    /\ clock = 0
    /\ hist = <<Snapshot(exists, content)>>

InitThreads ==
    /\ pc = [t \in Threads |-> "idle"]
    /\ file_path = [t \in Threads |-> "a.srt"]
    /\ file_mtime = [t \in Threads |-> 0]
    /\ encoding = [t \in Threads |-> ""]
    /\ lines = [t \in Threads |-> <<>>]
    /\ ret = [t \in Threads |-> None]
    /\ how = [t \in Threads |-> ""]
    /\ parses = [t \in Threads |-> 0]
    /\ stale_seen = [t \in Threads |-> FALSE]
    /\ cleared = [t \in Threads |-> FALSE]

InitCache ==
    /\ subtitle_cache = EmptyCache
    /\ pre_clear = [p \in Paths |-> "no"]

Init ==
    InitFiles /\ InitCache /\ InitThreads /\ InitScan /\ InitSearch /\ InitJump

NextCache ==
    \/ \E p \in Paths : WriteFile(p)
    \/ \E p \in Paths : DeleteFile(p)
    \/ \E p \in Paths : CreateFile(p)
    \/ \E t \in Threads, p \in Paths : StartGet(t, p)
    \/ \E t \in Threads : GetExists(t)
    \/ \E t \in Threads : GetMtime(t)
    \/ \E t \in Threads : GetInCache(t)
    \/ \E t \in Threads : GetLookup(t)
    \/ \E t \in Threads : GetDetect(t)
    \/ \E t \in Threads : GetLoad(t)
    \/ \E t \in Threads : GetStore(t)
    \/ ClearCache

SpecCache == Init /\ [][NextCache]_vars

NextScan ==
    \/ \E f \in Folders : BrowseFolder(f)
    \/ ScanSubtitlesNoFolder
    \/ ScanSubtitles
    \/ ScanComplete
    \/ \E w \in Workers : ResetFiles(w)
    \/ \E w \in Workers : ResetMap(w)
    \/ \E w \in Workers : StartWalk(w)
    \/ \E w \in Workers : AppendFile(w)
    \/ \E w \in Workers : MapFile(w)
    \/ \E w \in Workers : SkipFile(w)
    \/ \E w \in Workers : Probe(w)
    \/ \E w \in Workers : ExtractStream(w)
    \/ \E w \in Workers : ExtendFiles(w)
    \/ \E w \in Workers : PostScanComplete(w)
    \/ \E w \in Workers : ScanWalkRaise(w)
    \/ \E w \in Workers : PostScanError(w)
    \/ \E w \in Workers : ScanExceptExit(w)
    \/ ScanError

SpecScan == Init /\ [][NextScan]_vars

(***************************************************************************)
(* The state a finished scan of folder /one leaves, from which the         *)
(* searches run.  ffmpeg extracted streams 0 and 2 of the container, or    *)
(* streams 0 and 1 (which share their output path).  The pre-load has not  *)
(* yet filled the cache; the user may have picked another folder since.    *)
(***************************************************************************)
SearchPaths == {PathA, PathTrack0, PathTrack2}

ScanOfOneClean ==
    [files |-> <<PathA, PathTrack0, PathTrack2>>,
     map |-> (PathA :> StandaloneInfo(PathA))
               @@ (PathTrack0 :> ExtractedInfo(PathB, ContainerB.streams[1], 0))
               @@ (PathTrack2 :> ExtractedInfo(PathB, ContainerB.streams[3], 2))]

ScanOfOneCollision ==
    [files |-> <<PathA, PathTrack0, PathTrack0>>,
     map |-> (PathA :> StandaloneInfo(PathA))
               @@ (PathTrack0 :> ExtractedInfo(PathB, ContainerB.streams[2], 1))]

\* The file of track 2 when the searches read it: gone, or with a body.
FileGone == [there |-> FALSE, body |-> BodyTrack]
FileGood == [there |-> TRUE, body |-> BodyTrack]
FileJunkHello == [there |-> TRUE, body |-> BodyJunkHello]

SearchStarts ==
    { [scan |-> ScanOfOneClean, track2 |-> f, folder |-> "/one"] :
          f \in {FileGone, FileJunkHello} }
      \cup
    { [scan |-> ScanOfOneCollision, track2 |-> FileGood, folder |-> "/one"],
      [scan |-> ScanOfOneClean, track2 |-> FileGood, folder |-> "/two"] }

\* The files of the folder scanned in start i.
ScanWalk(i) == IF "walk" \in DOMAIN i THEN i.walk ELSE WalkOne

\* The files on disk the model keeps a record of in start i.
StartPaths(i) == IF "walk" \in DOMAIN i THEN {PathGig} ELSE SearchPaths

\* The files, the threads and the scan after a scan that ended as start i
\* says.
ScanDone(i) ==
    /\ exists = [p \in StartPaths(i) |->
                    IF p = PathTrack2 THEN i.track2.there ELSE TRUE]
    /\ content = [p \in StartPaths(i) |->
                     IF p = PathTrack0 THEN BodyTrack
                     ELSE IF p = PathTrack2 THEN i.track2.body
                     ELSE BodyA]
    /\ mtime = [p \in StartPaths(i) |-> 0]
    /\ clock = 0
    /\ hist = <<>>
    /\ pre_clear = [p \in StartPaths(i) |-> "no"]
    /\ InitThreads
    /\ folder_path = i.folder
    /\ subtitle_files = i.scan.files
    /\ subtitle_to_video_map = i.scan.map
    /\ found = [w \in Workers |-> IF w = 1 THEN i.scan.files ELSE <<>>]
    /\ files_by = [k \in DOMAIN i.scan.files |-> 1]
    /\ map_by = [p \in DOMAIN i.scan.map |-> 1]
    /\ after_queue = <<>>
    /\ preloads = 1
    /\ scans = 1
    /\ wpc = [w \in Workers |-> IF w = 1 THEN "finished" ELSE "unborn"]
    /\ walk = [w \in Workers |-> IF w = 1 THEN ScanWalk(i) ELSE <<>>]
    /\ idx = [w \in Workers |-> IF w = 1 THEN Len(ScanWalk(i)) + 1 ELSE 0]
    /\ streams = [w \in Workers |-> <<>>]
    /\ si = [w \in Workers |-> 0]
    /\ extracted_files = [w \in Workers |-> <<>>]
    /\ ok_idx = [w \in Workers |-> <<>>]
    /\ errored = {}

\* The state after a scan that ended as start i says, with the cache empty
\* and no search begun.
AfterScan(i) ==
    /\ ScanDone(i)
    /\ subtitle_cache = EmptyCache
    /\ status_var = "Found " \o ToString(Len(i.scan.files))
                       \o " subtitle files - Pre-loading..."
    /\ InitSearch
    /\ InitJump

InitAfterScan == \E i \in SearchStarts : AfterScan(i)

NextSearch ==
    \/ \E q \in Queries : SearchTextWarning(q)
    \/ \E q \in Queries : SearchText(q)
    \/ \E s \in Searches : SearchBegin(s)
    \/ \E s \in Searches : Submit(s)
    \/ \E s \in Searches : TaskStart(s)
    \/ \E s \in Searches : \E k \in DOMAIN tpc[s] : TaskGet(s, k)
    \/ \E s \in Searches : \E k \in DOMAIN tpc[s] : TaskStore(s, k)
    \/ \E s \in Searches : PostSearchComplete(s)
    \/ \E s \in Searches : PostSearchError(s)
    \/ \E s \in Searches : SearchExceptExit(s)
    \/ SearchComplete
    \/ SearchError

SpecSearch == InitAfterScan /\ [][NextSearch]_vars

\* The steps of the threads of a search and of the UI thread's event loop:
\* the worker, the tasks of its pool and the callbacks posted with
\* root.after.  The operating system schedules every thread that can run,
\* a file operation ends, and the event loop runs every callback posted.
\* The user's requests (search_text) are under no such obligation.
SearchProgress ==
    \/ \E s \in Searches : SearchBegin(s)
    \/ \E s \in Searches : Submit(s)
    \/ \E s \in Searches : TaskStart(s)
    \/ \E s \in Searches : \E k \in DOMAIN tpc[s] : TaskGet(s, k)
    \/ \E s \in Searches : \E k \in DOMAIN tpc[s] : TaskStore(s, k)
    \/ \E s \in Searches : PostSearchComplete(s)
    \/ \E s \in Searches : PostSearchError(s)
    \/ \E s \in Searches : SearchExceptExit(s)
    \/ SearchComplete
    \/ SearchError

\* The searches after the clean scan, with the file of track 2 unparseable.
InitAfterScanJunk ==
    AfterScan([scan |-> ScanOfOneClean, track2 |-> FileJunkHello,
               folder |-> "/one"])

SpecSearchLive ==
    InitAfterScanJunk /\ [][NextSearch]_vars /\ WF_vars(SearchProgress)

(***************************************************************************)
(* The jumps: the user selects a folder, makes a request that is turned    *)
(* down, or jumps from the rows of a search that was delivered.            *)
(***************************************************************************)
\* The scan of /live.
ScanOfLive ==
    [files |-> <<PathGig>>, map |-> (PathGig :> StandaloneInfo(PathGig))]

\* What the task of a search returns for file p of start i, with the
\* pattern pat: the file is parsed and its cues searched, or the fallback
\* branch runs.
StartMatches(i, pat, p) ==
    LET there == IF p = PathTrack2 THEN i.track2.there ELSE TRUE
        body == IF p = PathTrack0 THEN BodyTrack
                ELSE IF p = PathTrack2 THEN i.track2.body
                ELSE BodyA
        display_name == DisplayFilename(i.scan.map, i.folder, p)
    IN  IF there /\ body.ok
           THEN SearchLines(ParseLines(body), pat, display_name)
           ELSE SearchFallback(there, body, pat, display_name)

\* The results of a search over the files 1..k of start i, the tasks
\* completing in the order of the list.
RECURSIVE StartResults(_, _, _)
StartResults(i, pat, k) ==
    IF k = 0 THEN <<>>
    ELSE StartResults(i, pat, k - 1) \o StartMatches(i, pat, i.scan.files[k])

\* The state after the first search of start i, for "Hello" whatever the
\* case, was delivered: its rows are shown, the files it parsed are in the
\* cache.  The program runs on system sys.
AfterSearch(i, sys) ==
    LET pat == Compile(TextHelloAgain, TRUE)
        n == Len(i.scan.files)
        parsed == {p \in StartPaths(i) :
                      /\ \E k \in 1..n : i.scan.files[k] = p
                      /\ (p = PathTrack2 => i.track2.there /\ i.track2.body.ok)}
    IN  \E rs \in {StartResults(i, pat, n)} :
        /\ ScanDone(i)
        /\ subtitle_cache =
              [p \in parsed |->
                  CachedSubtitle(p, ParseLines(
                      IF p = PathTrack0 THEN BodyTrack
                      ELSE IF p = PathTrack2 THEN i.track2.body
                      ELSE BodyA), 0)]
        /\ status_var = "Found " \o ToString(Len(rs)) \o " matches in "
                           \o ToString(n) \o " files"
        /\ searches = 1
        /\ tree = Rows(1, rs)
        /\ errors_shown = <<>>
        /\ spc = [s \in Searches |-> IF s = 1 THEN "finished" ELSE "unborn"]
        /\ search_term = [s \in Searches |-> IF s = 1 THEN TextHelloAgain ELSE <<>>]
        /\ pattern = [s \in Searches |-> IF s = 1 THEN pat ELSE Compile(<<>>, FALSE)]
        /\ submitted = [s \in Searches |-> IF s = 1 THEN n ELSE 0]
        /\ started = [s \in Searches |-> IF s = 1 THEN n ELSE 0]
        /\ results = [s \in Searches |-> IF s = 1 THEN rs ELSE <<>>]
        /\ search_e = [s \in Searches |-> Unbound]
        /\ tpc = [s \in Searches |-> [k \in 1..n |-> "none"]]
        /\ tlines = [s \in Searches |-> [k \in 1..n |-> <<>>]]
        /\ file_results = [s \in Searches |-> [k \in 1..n |-> NoOutcome]]
        /\ scan_e = [w \in Workers |-> Unbound]
        /\ delivered = [s \in Searches |-> IF s = 1 THEN "complete" ELSE "no"]
        /\ InitJumpOn(sys)

\* The starts of the jumps: the starts of the searches that find the file
\* of track 2 there, and the scan of /live.
JumpStarts ==
    {i \in SearchStarts : i.track2.there}
      \cup
    { [scan |-> ScanOfLive, track2 |-> FileGood, folder |-> "/live",
       walk |-> WalkLive] }

\* The program has just been started, or a first search was delivered.
InitAfterSearch ==
    \/ Init
    \/ \E i \in JumpStarts : \E sys \in Systems : AfterSearch(i, sys)

\* The requests of the user that start no thread.
NextJump ==
    \/ \E f \in Folders : BrowseFolder(f)
    \/ ScanSubtitlesNoFolder
    \/ \E q \in Queries : SearchTextWarning(q)
    \/ JumpNoSelection
    \/ \E sel \in DOMAIN tree : JumpToVideo(sel)

SpecJump == InitAfterSearch /\ [][NextJump]_vars

(***************************************************************************)
(* The subtitle cache: claims C1 to C5 and C8, checked under SpecCache.    *)
(***************************************************************************)
\* Thread t takes a step of its call that leaves statement s.
Leaves(t, s) == pc[t] = s /\ pc'[t] # s

\* The cues in ls are the parse of what path p held at some clock value
\* from c on.
ParsedSince(ls, p, c) ==
    \E v \in c..clock :
        /\ HeldAt(v, p) # NoFile
        /\ HeldAt(v, p)[1].ok
        /\ ls = ParseLines(HeldAt(v, p)[1])

\* C1: cache hit.  At the cache check of a call, the call returns through the
\* hit branch exactly when an entry for the path is in the cache and its
\* last_modified is >= the modification time the call read; a hit returns the
\* stored entry itself (so the same cue sequence), the call has invoked the
\* parser zero times, and the cache is left as it was.  The membership test
\* sends the call on to parse exactly when no entry is there.
C1_CacheHit ==
    [][\A t \in Threads :
        LET p == file_path[t]
            fresh == /\ p \in DOMAIN subtitle_cache
                     /\ subtitle_cache[p].last_modified >= file_mtime[t]
        IN  /\ Leaves(t, "lookup") =>
                 /\ (pc'[t] = "done" /\ how'[t] = "hit") <=> fresh
                 /\ fresh => /\ ret'[t] = Some(subtitle_cache[p])
                             /\ parses'[t] = 0
                             /\ subtitle_cache' = subtitle_cache
            /\ Leaves(t, "in_cache") =>
                 (pc'[t] = "detect" <=> p \notin DOMAIN subtitle_cache)
            /\ (pc'[t] = "done" /\ how'[t] = "hit") => pc[t] \in {"lookup", "done"}
      ]_vars

\* C1 witness: a call has returned, through the hit branch and with no parse,
\* the entry stored for a file that exists and whose modification time is the
\* entry's.
C1_Witness ==
    \E t \in Threads :
        /\ pc[t] = "done" /\ how[t] = "hit" /\ parses[t] = 0
        /\ exists[file_path[t]]
        /\ file_path[t] \in DOMAIN subtitle_cache
        /\ ret[t] = Some(subtitle_cache[file_path[t]])
        /\ subtitle_cache[file_path[t]].last_modified = mtime[file_path[t]]

\* C2: invalidation.  A call that reads a modification time strictly greater
\* than the cached entry's last_modified goes on to parse (it never returns
\* the old entry); the parser is invoked; and when the parse succeeds the
\* call replaces the entry by CachedSubtitle(path, cues, the modification
\* time it read) and returns that entry, whose cues are the parse of what the
\* file held at or after that modification time.
C2_Invalidation ==
    [][\A t \in Threads :
        LET p == file_path[t] IN
            /\ ( /\ Leaves(t, "lookup")
                 /\ p \in DOMAIN subtitle_cache
                 /\ subtitle_cache[p].last_modified < file_mtime[t] )
                 => pc'[t] = "detect" /\ stale_seen'[t]
            /\ Leaves(t, "load") => parses'[t] = parses[t] + 1
            /\ (Leaves(t, "store") /\ stale_seen[t]) =>
                 /\ p \in DOMAIN subtitle_cache'
                 /\ subtitle_cache'[p] =
                       [file_path |-> p, lines |-> lines[t],
                        last_modified |-> file_mtime[t]]
                 /\ \A q \in DOMAIN subtitle_cache' \ {p} :
                       q \in DOMAIN subtitle_cache
                       /\ subtitle_cache'[q] = subtitle_cache[q]
                 /\ ret'[t] = Some(subtitle_cache'[p])
                 /\ parses'[t] = 1
                 /\ ParsedSince(lines[t], p, file_mtime[t])
            /\ (stale_seen[t] /\ pc[t] # "done" /\ pc'[t] = "done")
                 => how'[t] \in {"parsed", "oserror", "parse_error"}
      ]_vars

\* C2 witness: a call that found a stale entry has parsed once and returned
\* the entry now in the cache, which carries the file's new modification time
\* and the cues of its new content.
C2_Witness ==
    \E t \in Threads :
        /\ pc[t] = "done" /\ how[t] = "parsed" /\ stale_seen[t]
        /\ parses[t] = 1
        /\ ret[t] = Some(subtitle_cache[file_path[t]])
        /\ ret[t][1].last_modified = mtime[file_path[t]]
        /\ ret[t][1].last_modified > 0
        /\ ret[t][1].lines = ParseLines(content[file_path[t]])
        /\ content[file_path[t]] # BodyOne

\* C3 as claimed: a call that returns through the hit branch returns cues
\* equal to the parse of the file's current content.
C3_HitIsCurrent ==
    [][\A t \in Threads :
        (Leaves(t, "lookup") /\ how'[t] = "hit" /\ exists[file_path[t]])
            => ret'[t][1].lines = ParseLines(content[file_path[t]])
      ]_vars

\* C3 amended: a call that returns through the hit branch returns cues equal
\* to the parse of what the file held at some moment at or after the call
\* read the modification time: never content older than the content on disk
\* at that read, so an entry stored late by a thread that parsed older
\* content does not pass the freshness check of a call that read a newer
\* modification time.
C3_HitNotOlder ==
    [][\A t \in Threads :
        (Leaves(t, "lookup") /\ how'[t] = "hit")
            => ParsedSince(ret'[t][1].lines, file_path[t], file_mtime[t])
      ]_vars

\* C3 witness: after the file was rewritten, a call has returned through the
\* hit branch an entry that carries the new modification time and the cues
\* of the new content.
C3_Witness ==
    \E t \in Threads :
        /\ pc[t] = "done" /\ how[t] = "hit"
        /\ exists[file_path[t]]
        /\ mtime[file_path[t]] > 0
        /\ ret[t][1].last_modified = mtime[file_path[t]]
        /\ ret[t][1].lines = ParseLines(content[file_path[t]])

\* C4 as claimed (its first half): a call that is in flight when _clear_cache
\* runs does not fail or return absent because of the clear.  The one way a
\* clear can end a call is the KeyError of subtitle_cache[file_path] on a key
\* the membership test has just found.
C4_ClearSafeMidFlight ==
    \A t \in Threads : pc[t] = "done" => how[t] # "keyerror"

\* C5: a call for a path that does not exist returns None at the existence
\* check, without raising, with the parser not invoked, and leaves the cache
\* as it was (an entry stored earlier for the path stays and is not returned).
C5_MissingFile ==
    [][\A t \in Threads :
        (Leaves(t, "exists") /\ ~exists[file_path[t]]) =>
            /\ pc'[t] = "done"
            /\ ret'[t] = None
            /\ how'[t] = "absent"
            /\ parses'[t] = 0
            /\ subtitle_cache' = subtitle_cache
      ]_vars

\* C5 witness: a call has returned None for a missing file while the entry
\* stored earlier for that path is still in the cache.
C5_Witness ==
    \E t \in Threads :
        /\ pc[t] = "done" /\ how[t] = "absent" /\ ret[t] = None
        /\ ~exists[file_path[t]]
        /\ file_path[t] \in DOMAIN subtitle_cache

\* C8 as claimed: no entry whose parse began before the latest clear is in
\* the cache.
C8_NoEntryParsedBeforeClear ==
    \A p \in DOMAIN subtitle_cache : pre_clear[p] = "no"

\* C8 amended: the clear empties the cache, so every entry in the cache was
\* stored after the latest clear; an entry whose parse began before that
\* clear can be present, stored after it by the call that was in flight.
C8_NoEntryStoredBeforeClear ==
    \A p \in DOMAIN subtitle_cache : pre_clear[p] # "store"

\* C8 witness: the cache holds an entry that a call in flight at the latest
\* clear stored after it.
C8_Witness ==
    \E p \in DOMAIN subtitle_cache : pre_clear[p] = "parse"

(***************************************************************************)
(* The scan: claims C6, C7, C9 and C10, checked under SpecScan.            *)
(***************************************************************************)
\* Every scan worker that was started has finished.
ScansFinished == scans > 0 /\ \A w \in 1..scans : wpc[w] = "finished"

\* The subtitle files of the folders, by path.
StandalonePaths ==
    {FilePath(WalkOne[k]) : k \in {j \in DOMAIN WalkOne : IsSubtitle(WalkOne[j])}}
      \cup
    {FilePath(WalkTwo[k]) : k \in {j \in DOMAIN WalkTwo : IsSubtitle(WalkTwo[j])}}

\* C6 as claimed, at the states where every scan worker has finished (the
\* states a search or the pre-load reads, at the latest): every path in
\* subtitle_files has an entry in subtitle_to_video_map, and a standalone
\* subtitle file maps to itself with is_extracted false and track_index -1.
C6_FilesHaveTrackInfo ==
    ScansFinished =>
        \A k \in DOMAIN subtitle_files :
            LET p == subtitle_files[k] IN
                /\ p \in DOMAIN subtitle_to_video_map
                /\ p \in StandalonePaths =>
                      subtitle_to_video_map[p] =
                          [original_file |-> p, is_extracted |-> FALSE,
                           track_index |-> -1]

\* C7 as claimed: once all scan workers have finished, subtitle_files is the
\* list the most recently started scan built, and neither it nor
\* subtitle_to_video_map holds an entry contributed by an earlier scan.
C7_LatestScanOnly ==
    ScansFinished =>
        /\ subtitle_files = found[scans]
        /\ \A k \in DOMAIN files_by : files_by[k] = scans
        /\ \A p \in DOMAIN subtitle_to_video_map : map_by[p] = scans

\* C9 as claimed, for a scan that runs alone: when the stream loop of
\* _extract_mkv_subtitles has ended, the k-th path returned is the output of
\* the k-th stream whose extraction succeeded, and its map entry has
\* is_extracted true, original_file the container and track_index that
\* stream's index.
C9_TrackIsolation ==
    \A w \in Workers :
        (scans = 1 /\ wpc[w] = "extend") =>
            /\ Len(extracted_files[w]) = Len(ok_idx[w])
            /\ \A k \in DOMAIN extracted_files[w] :
                 LET p == extracted_files[w][k]
                     i == ok_idx[w][k]
                 IN  /\ p = OutputPath(Cur(w), Cur(w).streams[i + 1], i)
                     /\ p \in DOMAIN subtitle_to_video_map
                     /\ subtitle_to_video_map[p].is_extracted
                     /\ subtitle_to_video_map[p].original_file = FilePath(Cur(w))
                     /\ subtitle_to_video_map[p].track_index = i

\* C10 as claimed, for a scan that runs alone: once the scan has finished, a
\* container whose metadata inspection failed or whose resolution raised has
\* no entry in subtitle_to_video_map (and the scan did go on to the end).
C10_ErroredContainerEmpty ==
    (scans = 1 /\ ScansFinished) =>
        \A c \in errored :
            \A p \in DOMAIN subtitle_to_video_map :
                subtitle_to_video_map[p].original_file # c

\* C11 as claimed: within one scan, the tracks extracted from distinct
\* (container, stream index) pairs have distinct output paths, so no path
\* occurs twice among the paths a scan worker added to subtitle_files.
C11_DistinctTrackPaths ==
    \A w \in Workers :
        \A j, k \in DOMAIN found[w] :
            j # k => found[w][j] # found[w][k]

(***************************************************************************)
(* The search: claims C12 to C20, checked under SpecSearch.                *)
(***************************************************************************)
\* The text in lower case.
LowerText(t) == [i \in DOMAIN t |-> LowerChar(t[i])]

\* t contains q as a substring.
Contains(t, q) ==
    \E i \in 0..(Len(t) - Len(q)) : SubSeq(t, i + 1, i + Len(q)) = q

\* The tasks that have returned a list.
ReturnedTasks ==
    {t \in Searches \X (1..Len(subtitle_files)) :
        tpc[t[1]][t[2]] = "done" /\ ~file_results[t[1]][t[2]].raised}

\* Every task of search s is done and the worker has not yet posted its
\* callback: results is the list it will deliver.
Collected(s) ==
    /\ spc[s] = "collect"
    /\ \A k \in DOMAIN tpc[s] : tpc[s][k] = "done"

\* The file of task t is there and the parser can interpret it.
Parseable(p) == exists[p] /\ content[p].ok

\* Cue c is among the matches ms.
Reported(ms, c) ==
    \E i \in DOMAIN ms : ms[i].start_ms = c.start_ms /\ ms[i].text = c.text

\* C12: case sensitivity.  For every task that has searched the cues of a
\* file, with query q (the search term) and each cue text t: when the
\* pattern was compiled case-insensitive the cue is reported exactly when
\* the lower-cased t contains the lower-cased q as a substring, and when it
\* was compiled case-sensitive exactly when t contains q as it is.
C12_CaseSensitivity ==
    \A t \in ReturnedTasks :
        LET s == t[1]
            p == subtitle_files[t[2]]
            q == search_term[s]
            cues == ParseLines(content[p])
        IN  Parseable(p) =>
              \A i \in DOMAIN cues :
                  Reported(file_results[s][t[2]].matches, cues[i]) <=>
                      IF pattern[s].ignorecase
                         THEN Contains(LowerText(cues[i].text), LowerText(q))
                         ELSE Contains(cues[i].text, q)

\* Two searches for "Hello" over a.srt have returned: the case-insensitive
\* one reports "hello world", the case-sensitive one does not (and reports
\* "Hello").
C12_Witness ==
    \E s1, s2 \in Searches :
        /\ <<s1, 1>> \in ReturnedTasks /\ <<s2, 1>> \in ReturnedTasks
        /\ subtitle_files[1] = PathA
        /\ search_term[s1] = TextHelloAgain /\ search_term[s2] = TextHelloAgain
        /\ pattern[s1].ignorecase /\ ~pattern[s2].ignorecase
        /\ Reported(file_results[s1][1].matches,
                    [start_ms |-> 5000, text |-> TextHelloWorld])
        /\ ~Reported(file_results[s2][1].matches,
                     [start_ms |-> 5000, text |-> TextHelloWorld])
        /\ Reported(file_results[s2][1].matches,
                    [start_ms |-> 3723000, text |-> TextHelloAgain])

\* The search term of search s occurs in text t, for the flag its pattern
\* was compiled with.
TermIn(s, t) ==
    IF pattern[s].ignorecase
       THEN Contains(LowerText(t), LowerText(search_term[s]))
       ELSE Contains(t, search_term[s])

\* The match of a file that could not be parsed.
IsUnresolved(m) ==
    /\ m.start_time = "--:--:--"
    /\ m.start_ms = 0
    /\ m.text = TextNotParsed

\* C13: fallback degradation.  A task over a file that is there and that the
\* parser cannot interpret never ends with an exception; it returns exactly
\* one match, carrying the unresolved time marker, when the raw text
\* contains the search term, and the empty list when it does not.
C13_FallbackDegradation ==
    \A s \in Searches : \A k \in DOMAIN tpc[s] :
        LET p == subtitle_files[k]
            o == file_results[s][k]
        IN  (tpc[s][k] = "done" /\ exists[p] /\ ~content[p].ok) =>
              /\ ~o.raised
              /\ IF TermIn(s, content[p].raw)
                    THEN Len(o.matches) = 1 /\ IsUnresolved(o.matches[1])
                    ELSE o.matches = <<>>

\* Two searches for "Hello" over the unparseable file of track 2, whose raw
\* text holds "hello", have returned: the case-insensitive one with the one
\* unresolved match, the case-sensitive one with nothing.
C13_Witness ==
    \E s1, s2 \in Searches :
        /\ subtitle_files[3] = PathTrack2
        /\ exists[PathTrack2] /\ ~content[PathTrack2].ok
        /\ tpc[s1][3] = "done" /\ tpc[s2][3] = "done"
        /\ pattern[s1].ignorecase /\ ~pattern[s2].ignorecase
        /\ Len(file_results[s1][3].matches) = 1
        /\ IsUnresolved(file_results[s1][3].matches[1])
        /\ file_results[s2][3].matches = <<>>

\* The display name of the matches of path p.
DisplayOf(p) == DisplayFilename(subtitle_to_video_map, folder_path, p)

\* Path p occurs once in the file list.
Once(p) == Cardinality({k \in DOMAIN subtitle_files : subtitle_files[k] = p}) = 1

\* The task of search s for list element k failed: its file is gone, or it
\* ended with an exception.
TaskFailed(s, k) == file_results[s][k].raised \/ ~exists[subtitle_files[k]]

\* C14: per-file failure isolation.  A worker is in its except clause (and
\* the search ends through _search_error) only for an exception raised
\* before any task was submitted, never for the failure of a task.  In the
\* results the worker is about to post with _search_complete, a file whose
\* task failed has no match, and every cue of every other parseable file
\* that holds the search term has its match.
C14_FailureIsolation ==
    \A s \in Searches :
        /\ (spc[s] \in {"except", "except_end", "failed"}
              \/ delivered[s] \in {"error", "NameError"}) => submitted[s] = 0
        /\ Collected(s) =>
             \A k \in DOMAIN subtitle_files :
                 LET p == subtitle_files[k]
                     cues == ParseLines(content[p])
                 IN  /\ (TaskFailed(s, k) /\ Once(p)) =>
                           \A i \in DOMAIN results[s] :
                               results[s][i].display_name # DisplayOf(p)
                     /\ (~TaskFailed(s, k) /\ Parseable(p)) =>
                           \A c \in DOMAIN cues :
                               TermIn(s, cues[c].text) =>
                                   \E i \in DOMAIN results[s] :
                                       /\ results[s][i].display_name = DisplayOf(p)
                                       /\ results[s][i].start_ms = cues[c].start_ms
                                       /\ results[s][i].text = cues[c].text

\* The file of track 2 is gone.  One search (whose task for a.srt ended
\* with an exception: the file holds the term) was delivered through
\* _search_complete with no result; the other has all its tasks done, the
\* one for track 0 with an exception, and the two matches of a.srt in its
\* results.
C14_Witness ==
    \E s1, s2 \in Searches :
        /\ subtitle_files = ScanOfOneClean.files
        /\ ~exists[PathTrack2]
        /\ delivered[s1] = "complete"
        /\ results[s1] = <<>>
        /\ Collected(s2)
        /\ file_results[s2][2].raised
        /\ Len(results[s2]) = 2

\* The (display_name, start_ms, text) triples of a list of matches.
Triples(ms) ==
    {<<ms[i].display_name, ms[i].start_ms, ms[i].text>> : i \in DOMAIN ms}

\* The triples path p holds for the search term of search s: one per cue
\* that holds the term when the file can be parsed, the unresolved one when
\* it cannot and its raw text holds the term, none when it is gone.
FileTriples(s, p) ==
    IF ~exists[p] THEN {}
    ELSE IF content[p].ok
       THEN LET cues == ParseLines(content[p]) IN
            {<<DisplayOf(p), cues[c].start_ms, cues[c].text>> :
                c \in {d \in DOMAIN cues : TermIn(s, cues[d].text)}}
    ELSE IF TermIn(s, content[p].raw)
       THEN {<<DisplayOf(p), 0, TextNotParsed>>}
    ELSE {}

\* No task of search s ended with an exception.
NoneRaised(s) == \A k \in DOMAIN tpc[s] : ~file_results[s][k].raised

\* C15: order-independent determinism.  When the worker of a search none of
\* whose tasks raised is about to post _search_complete, the set of (display_name,
\* start_ms, text) triples of its results is the union of the triples of the
\* files of the list, in whatever order the tasks ran and whatever the cache
\* held when each of them looked a file up.
C15_Determinism ==
    \A s \in Searches :
        (Collected(s) /\ NoneRaised(s)) =>
            Triples(results[s]) =
                UNION {FileTriples(s, subtitle_files[k]) : k \in DOMAIN subtitle_files}

\* Two searches with the same flag have all their tasks done: one parsed all its
\* files (cold cache), the other found a.srt in the cache and parsed
\* track 0 itself (partly filled cache); their result lists are in different
\* orders.
C15_Witness ==
    \E s1, s2 \in Searches :
        /\ subtitle_files = ScanOfOneClean.files
        /\ Collected(s1) /\ Collected(s2)
        /\ pattern[s1] = pattern[s2] /\ pattern[s1].ignorecase
        /\ NoneRaised(s1) /\ NoneRaised(s2)
        /\ file_results[s1][1].via = "parsed" /\ file_results[s1][2].via = "parsed"
        /\ file_results[s2][1].via = "hit" /\ file_results[s2][2].via = "parsed"
        /\ results[s1] # results[s2]
        /\ Triples(results[s1]) = Triples(results[s2])
        /\ Len(results[s1]) > 2

\* The positions of the matches of path p in the results of search s.
PositionsOf(s, p) ==
    {i \in DOMAIN results[s] : results[s][i].display_name = DisplayOf(p)}

\* The place in file p of the cue that match m reports.
CueIndex(p, m) ==
    LET cues == ParseLines(content[p]) IN
    CHOOSE c \in DOMAIN cues :
        cues[c].start_ms = m.start_ms /\ cues[c].text = m.text

\* C16 as claimed: in the results a search delivers, the matches of any one
\* parseable file of the list are one contiguous block, in the order of
\* their cues in the file.
C16_CueOrder ==
    \A s \in Searches :
        spc[s] = "finished" =>
            \A k \in DOMAIN subtitle_files :
                LET p == subtitle_files[k] IN
                Parseable(p) =>
                    \A i, j \in PositionsOf(s, p) :
                        i < j =>
                            /\ \A m \in i..j : m \in PositionsOf(s, p)
                            /\ CueIndex(p, results[s][i]) < CueIndex(p, results[s][j])

\* The per-file tasks that are executing, over all the searches.
Executing == {t \in Searches \X (1..Len(subtitle_files)) : t[2] \in Running(t[1])}

\* C17 as claimed: at every moment at most 4 per-file tasks are executing,
\* over all the searches in progress.
C17_BoundedConcurrency == Cardinality(Executing) <= max_workers

\* Every search that was started has been delivered through _search_complete.
AllDelivered ==
    searches > 0 /\ \A s \in 1..searches : delivered[s] = "complete"

\* C18 as claimed: once every search that was started has delivered its
\* results, the rows shown are exactly those of the latest search (rows of
\* an earlier search can be there only when it delivered after the latest
\* one was started, search_text clearing the tree first).
C18_LatestSearchShown ==
    AllDelivered => tree = Rows(searches, results[searches])

\* The folder the finished scan walked.
ScannedFolder == walk[scans][1].root

\* The path of a file of the scanned folder relative to that folder: its name.
NameInFolder(p) ==
    LET f == CHOOSE g \in KnownFiles : g.path = p /\ g.dir = ScannedFolder
    IN  f.name

\* The display name C19 gives path p of the file list.
ClaimedDisplayName(p) ==
    LET info == subtitle_to_video_map[p] IN
    IF info.is_extracted
       THEN NameInFolder(info.original_file)
              \o " [Track " \o ToString(info.track_index) \o ": " \o info.language
              \o (IF info.title # "" THEN " - " \o info.title ELSE "") \o "]"
       ELSE NameInFolder(p)

\* C19 as claimed: every match a task returns for a path of the file list
\* carries the owning video's path relative to the scanned folder followed
\* by " [Track <track_index>: <language>]" when the path is an extracted
\* track, and the subtitle file's own path relative to the scanned folder
\* otherwise.
C19_DisplayName ==
    \A t \in ReturnedTasks :
        LET ms == file_results[t[1]][t[2]].matches IN
        \A i \in DOMAIN ms :
            ms[i].display_name = ClaimedDisplayName(subtitle_files[t[2]])

\* The elements of a sequence.
Range(q) == {q[i] : i \in DOMAIN q}

\* The worker of scan w ended in its except clause and the UI thread has run
\* the callback it posted.
ScanErrorRun(w) ==
    /\ wpc[w] \in {"except_end", "failed"}
    /\ ScanErrorCallback(w) \notin Range(after_queue)

\* C20 as claimed, as far as a state shows it: when the UI thread has run
\* the callback posted by the except clause of a worker, the error handler
\* has run with the message of the exception (_search_error for a search
\* worker, _scan_error for a scan worker).
C20_ErrorsSurfaced ==
    /\ \A s \in Searches :
          delivered[s] \in {"error", "NameError"} =>
              /\ delivered[s] = "error"
              /\ \E m \in Messages : ("Search failed: " \o m) \in Range(errors_shown)
    /\ \A w \in Workers :
          ScanErrorRun(w) =>
              \E m \in Messages :
                  ("Failed to scan subtitles: " \o m) \in Range(errors_shown)

(***************************************************************************)
(* Claims about the encoding handed to the parser.                         *)
(***************************************************************************)
\* The search tasks that took the fallback branch on a file that is there.
FallbackTasks ==
    {t \in Searches \X DOMAIN subtitle_files :
        /\ file_results[t[1]][t[2]].via = "fallback"
        /\ exists[subtitle_files[t[2]]]}

\* C21: the encoding handed to pysubs2.load is never None: a call of
\* _get_cached_subtitle that is about to parse holds an encoding, UTF-8 when
\* chardet had no guess for the file, and so does the fallback branch of
\* _search_in_file_cached.
C21_EncodingFallback ==
    /\ \A t \in Threads : pc[t] = "load" => encoding[t] # NoEncoding
    /\ \A t \in FallbackTasks :
          FallbackEncoding(content[subtitle_files[t[2]]]) # NoEncoding

(***************************************************************************)
(* Claims about the hand-over of the results of a search.                  *)
(***************************************************************************)
\* The number of callbacks cb waiting in the queue of the UI thread.
Waiting(cb) == Cardinality({i \in DOMAIN after_queue : after_queue[i] = cb})

\* The number of times the results of search s were handed over so far: the
\* callback waits in the queue, or the UI thread has run it.
HandOvers(s) ==
    Waiting(SearchCompleteCallback(s))
        + (IF delivered[s] = "complete" THEN 1 ELSE 0)

\* The list ms is in rs, as one block.
HasBlock(rs, ms) ==
    \E i \in 0..(Len(rs) - Len(ms)) : SubSeq(rs, i + 1, i + Len(ms)) = ms

\* The number of matches of the tasks 1..k of search s that returned a list.
RECURSIVE ReturnedMatches(_, _)
ReturnedMatches(s, k) ==
    IF k = 0 THEN 0
    ELSE ReturnedMatches(s, k - 1)
           + (IF file_results[s][k].raised THEN 0
              ELSE Len(file_results[s][k].matches))

\* The worker of search s hands its results over in this step.
HandsOver(s) ==
    Waiting(SearchCompleteCallback(s))' > Waiting(SearchCompleteCallback(s))

\* What holds of search s when its worker hands its results over: every
\* file of the list has a task, every task is done, and the results are the
\* matches of the tasks that returned a list, each list as one block, and
\* nothing else.
Joined(s) ==
    /\ submitted[s] = Len(subtitle_files)
    /\ \A k \in DOMAIN subtitle_files : tpc[s][k] = "done"
    /\ \A k \in DOMAIN subtitle_files :
          ~file_results[s][k].raised =>
              HasBlock(results[s], file_results[s][k].matches)
    /\ Len(results[s]) = ReturnedMatches(s, Len(subtitle_files))

\* The safety part of the join barrier: the results are handed over at most
\* once, only when Joined, and the list handed over is not written again.
JoinSafety ==
    /\ [](\A s \in Searches : HandOvers(s) <= 1)
    /\ [][\A s \in Searches : HandsOver(s) => Joined(s)]_vars
    /\ [][\A s \in Searches : HandOvers(s) = 1 => results'[s] = results[s]]_vars

\* C22 (as stated): join barrier for every search that passes the input
\* checks.  Its results are handed to the UI at most once, only after every
\* task it submitted has finished, with the matches of every task that
\* returned normally; and once search_text has started its worker, the UI
\* thread eventually receives the results.
C22_JoinBarrierEverySearch ==
    /\ JoinSafety
    /\ \A s \in Searches : (spc[s] = "begin") ~> (delivered[s] = "complete")

\* C22 (amended): the same, for every search whose worker has compiled its
\* pattern and created its pool without an exception: from the moment it
\* submits its tasks, the UI thread eventually receives the results.
C22_JoinBarrier ==
    /\ JoinSafety
    /\ \A s \in Searches : (spc[s] = "submit") ~> (delivered[s] = "complete")

\* A search over the three files of the list was handed over once and
\* received by the UI thread, with the matches of its tasks.
C22_Witness ==
    \E s \in Searches :
        /\ delivered[s] = "complete"
        /\ HandOvers(s) = 1
        /\ submitted[s] = 3
        /\ Len(results[s]) >= 2

(***************************************************************************)
(* Claims about the jump to the video.                                     *)
(***************************************************************************)
\* The players _open_video_at_time tries on system sys, in order.
PlayersOf(sys) ==
    (IF sys = "darwin" THEN <<"IINA">> ELSE <<>>) \o <<"VLC", "mpv", "default">>

\* The place of a player in that order (0: not a player of the system).
PlaceOf(sys, player) ==
    IF \E r \in DOMAIN PlayersOf(sys) : PlayersOf(sys)[r] = player
       THEN CHOOSE r \in DOMAIN PlayersOf(sys) : PlayersOf(sys)[r] = player
       ELSE 0

\* The calls start with the first player of the system and go from a player
\* to the next one of the order, leaving none out.
InOrder(sys, calls) ==
    /\ calls # <<>> => PlaceOf(sys, calls[1].player) = 1
    /\ \A c \in 1..(Len(calls) - 1) :
          LET here == PlaceOf(sys, calls[c].player)
              next == PlaceOf(sys, calls[c + 1].player)
          IN  here > 0 /\ (next = here \/ next = here + 1)

\* C23: player launch order.  In every call of jump_to_video that gets to
\* _open_video_at_time, the Popen calls go through the players in the order
\* IINA (on macOS only), VLC, mpv, default handler; no call is made after
\* one that started a process, so at most one process is started; the
\* instruction to seek by hand is shown exactly when the process started is
\* the default handler; and False is returned exactly when every player of
\* the system was tried and no call started a process.
C23_PlayerLaunchOrder ==
    [][(jumps' # jumps /\ success' # "none") =>
          /\ InOrder(system, popens')
          /\ \A c \in DOMAIN popens' : popens'[c].ok => c = Len(popens')
          /\ Cardinality({c \in DOMAIN popens' : popens'[c].ok}) <= 1
          /\ (Len(infos_shown') = Len(infos_shown) + 1)
                <=> (Launched(popens')
                       /\ popens'[Len(popens')].player = "default")
          /\ (Len(infos_shown') = Len(infos_shown))
                <=> ~(Launched(popens')
                        /\ popens'[Len(popens')].player = "default")
          /\ (success' = "true") <=> Launched(popens')
          /\ (success' = "false")
                <=> /\ \A c \in DOMAIN popens' : ~popens'[c].ok
                    /\ \A r \in DOMAIN PlayersOf(system) :
                          \E c \in DOMAIN popens' :
                              popens'[c].player = PlayersOf(system)[r]
      ]_vars

\* A jump on Linux: vlc, the VLC of the bundle and mpv could not be run,
\* xdg-open was started, and the instruction to seek to 00:00:05 was shown.
C23_Witness ==
    /\ system = "linux"
    /\ success = "true"
    /\ Len(popens) = 4
    /\ popens[4].player = "default" /\ popens[4].ok
    /\ \A c \in 1..3 : ~popens[c].ok
    /\ infos_shown = <<SeekInfo(5000)>>

(***************************************************************************)
(* Claims about the requests that are turned down.                         *)
(***************************************************************************)
\* The warning shown in this step, "" when none is.
WarningShown ==
    IF Len(warnings_shown') = Len(warnings_shown) + 1
       THEN warnings_shown'[Len(warnings_shown')] ELSE ""

\* C24: rejected requests change nothing.  A scan request with no folder
\* selected ("Please select a folder first") leaves the cache, the file
\* list and the track map as they are and starts no scan worker; a search
\* request with a blank query ("Please enter search text") or with an empty
\* file list ("Please scan for subtitles first") leaves the rows shown,
\* with their start times, as they are and starts no search worker.
C24_RejectedRequests ==
    [][/\ WarningShown = "Please select a folder first" =>
            /\ folder_path = ""
            /\ UNCHANGED <<subtitle_cache, subtitle_files,
                           subtitle_to_video_map, status_var>>
            /\ UNCHANGED <<scans, wpc>>
       /\ WarningShown \in {"Please enter search text",
                            "Please scan for subtitles first"} =>
            /\ UNCHANGED <<tree, status_var>>
            /\ UNCHANGED <<searches, spc>>
      ]_vars

\* A search request with a blank query was turned down while the rows of
\* the first search were shown and its files were in the cache: the rows
\* are still there.
C24_Witness ==
    /\ warnings_shown = <<"Please enter search text">>
    /\ tree # <<>>
    /\ DOMAIN subtitle_cache # {}
    /\ searches = 1

(***************************************************************************)
(* Claims about the way back from a display name to the file.              *)
(***************************************************************************)
\* C25: display-name round trip.  For every path p of the track map, the
\* video file found for the display name of p is the original_file of p:
\* the file itself for a standalone subtitle file, the container for an
\* extracted track.
C25_DisplayNameRoundTrip ==
    \A p \in DOMAIN subtitle_to_video_map :
        FindVideoFileFromDisplayName(
            subtitle_to_video_map, folder_path,
            DisplayFilename(subtitle_to_video_map, folder_path, p))
          = Some(subtitle_to_video_map[p].original_file)

====
